---- MODULE Spec2Model ----
(***************************************************************************)
(* A model of the SquashFS reader: the file handle (Read, Seek, ReadAt,    *)
(* Close) over data blocks, the tail fragment and the shared block cache,  *)
(* the directory handle, and the path resolver with symlink following.     *)
(***************************************************************************)
EXTENDS Integers, Sequences, FiniteSets, TLC

(***************************************************************************)
(* Bounds of the model.                                                    *)
(***************************************************************************)
\* superblock.BlockSize of the modelled images (scaled down from 2^12..2^20)
BlockSize == 2
\* largest number of entries in a file's blockSizes
MaxBlocks == 2
\* byte budget of the block cache (OpenWithCacheSize)
CacheSize == 5
\* longest buffer passed to Read and ReadAt
MaxBuf == 4
\* largest position a Seek of the model moves the handle to, past the file end
MaxPast == 1
\* the most entries one ReadDir asks for
MaxEntries == 3

(***************************************************************************)
(* Program constants.                                                      *)
(***************************************************************************)
sizeMask == 16777215
compressionMask == 16777216
\* 0xffffffff, as the signed 32-bit integer with the same bits
fieldDisabled == -1
blockHeaderSize == 2
dirFileSizeOffset == 3
metadataPointerShift == 16
metadataPointerMask == 65535
metadataBlockSizeMask == 32767
metadataBlockCompressedMask == 32768
\* the most bytes a metablock holds
blockSize == 8192
dirLinkCountOffset == 2
inodeBasicDir == 1
inodeBasicFile == 2
inodeBasicSymlink == 3
maximumRedirects == 1024
magic == 1936814952
versionMajor == 4
versionMinor == 0
flagCompressionOptions == 1024
CompressorGZIP == 1
CompressorLZMA == 2
CompressorLZO == 3
CompressorXZ == 4
CompressorLZ4 == 5
CompressorZSTD == 6
minimumWindowSize == 8
maximumWindowSize == 15
maxStrategy == 21
maxAlgorithm == 4
lzoDefaultAlgorithm == 4
lzoDefaultCompressionLevel == 8
maxDictionarySize == 8192
maxFilters == 63
maxZStdCompressionLevel == 22
\* zlib.BestCompression
BestCompression == 9
SeekStart == 0
SeekCurrent == 1
SeekEnd == 2

NIL == 0

\* the errors the modelled code returns
ErrNone == "nil"
EOF == "EOF"
ErrUnexpectedEOF == "unexpected EOF"
ErrClosed == "closed"
ErrInvalid == "invalid"
ErrNotExist == "not exist"
ErrPermission == "permission"
ErrZlib == "zlib"
ErrInvalidPointer == "invalid pointer"
ErrInvalidBlockHeader == "invalid block header"
ErrNilReader == "nil pointer dereference"
ErrInvalidMagicNumber == "invalid magic number"
ErrInvalidBlockSize == "invalid block size"
ErrInvalidVersion == "invalid version"
ErrInvalidCompressor == "invalid or unknown compressor"
ErrInvalidCompressionLevel == "invalid compression level"
ErrInvalidWindowSize == "invalid window size"
ErrInvalidCompressionStrategies == "invalid compression strategies"
ErrNoCompressorOptions == "no compressor options should be supplied"
ErrInvalidCompressionAlgorithm == "invalid compression algorithm"
ErrInvalidDictionarySize == "invalid dictionary size"
ErrInvalidFilters == "invalid filters"
ErrInvalidCompressorVersion == "invalid compressor version"
ErrInvalidCompressorFlags == "invalid compressor flags"

Min(a, b) == IF a < b THEN a ELSE b
Max(a, b) == IF a < b THEN b ELSE a

\* the value of e, computed once and handed to F
Let(e, F(_)) == CHOOSE v \in { F(x) : x \in {e} } : TRUE

\* p[lo:hi] of Go, on a sequence whose first element has index 0
Slice(s, lo, hi) == IF hi <= lo THEN <<>> ELSE SubSeq(s, lo + 1, hi)

(***************************************************************************)
(* The image.  The byte source is a sequence of bytes, offset 0 first.  A  *)
(* compressed extent is one negative byte: the zlib stream that inflates   *)
(* to the payload the image records for that token; every other byte is    *)
(* not a zlib stream.  Logical byte i (from 1) of a file has the value i;  *)
(* a sparse block reads as zeros.                                          *)
(***************************************************************************)
BlockKinds == {"gz", "raw", "sparse", "gzHigh", "rawHigh"}

\* bits 25 to 30 of a block size entry, which the format leaves unused
HighBits == 2 * compressionMask + 32 * compressionMask

\* number of bytes of block k (from 1) of a file of n blocks
BlockLen(n, k, hasFrag, lastLen) ==
    IF k = n /\ ~hasFrag THEN lastLen ELSE BlockSize

\* decompressed content of block k
BlockPayload(n, k, hasFrag, lastLen) ==
    [i \in 1..BlockLen(n, k, hasFrag, lastLen) |-> (k - 1) * BlockSize + i]

\* the bytes block k occupies in the image
BlockStored(kind, n, k, hasFrag, lastLen) ==
    CASE kind \in {"gz", "gzHigh"} -> << -k >>
      [] kind \in {"raw", "rawHigh"} -> BlockPayload(n, k, hasFrag, lastLen)
      [] OTHER -> <<>>

\* the blockSizes entry of block k
BlockEntry(kind, n, k, hasFrag, lastLen) ==
    CASE kind = "gz" -> 1
      [] kind = "raw" -> compressionMask + BlockLen(n, k, hasFrag, lastLen)
      [] kind = "gzHigh" -> HighBits + 1
      [] kind = "rawHigh" -> HighBits + compressionMask + BlockLen(n, k, hasFrag, lastLen)
      [] OTHER -> 0

RECURSIVE Concat(_)
Concat(ss) == IF ss = <<>> THEN <<>> ELSE Head(ss) \o Concat(Tail(ss))

\* where the data blocks of the modelled file start in the image
BlocksStart == 3
\* the token of the compressed fragment block and of the fragment table
FragToken == 0 - (MaxBlocks + 1)
MetaToken == 0 - (MaxBlocks + 2)
\* bytes of another file's tail that precede this file's tail in the fragment
FragPrefix == <<91>>

MkImage(kinds, hasFrag, lastLen, fragRaw, metaRaw) ==
    LET n == Len(kinds)
        stored == [k \in 1..n |-> BlockStored(kinds[k], n, k, hasFrag, lastLen)]
        blocks == Concat(stored)
        tailLen == IF hasFrag THEN lastLen ELSE 0
        size == IF n = 0 THEN tailLen
                ELSE IF hasFrag THEN n * BlockSize + tailLen
                ELSE (n - 1) * BlockSize + lastLen
        fragPayload == FragPrefix \o [i \in 1..tailLen |-> n * BlockSize + i]
        fragStored == IF fragRaw THEN fragPayload ELSE << FragToken >>
        fragStart == BlocksStart + Len(blocks)
        fragSize == IF fragRaw THEN compressionMask + Len(fragPayload) ELSE 1
        metaStart == fragStart + Len(fragStored)
        metaPayload == << fragStart, fragSize, 0 >>
        metaStored == IF metaRaw THEN metaPayload ELSE << MetaToken >>
        \* the 2-byte metablock header: size, then the uncompressed flag
        metaHeader == << Len(metaStored), IF metaRaw THEN 1 ELSE 0 >>
    IN  [ blockSizes  |-> [k \in 1..n |-> BlockEntry(kinds[k], n, k, hasFrag, lastLen)],
          blocksStart |-> BlocksStart,
          fragIndex   |-> IF hasFrag THEN 0 ELSE fieldDisabled,
          blockOffset |-> IF hasFrag THEN Len(FragPrefix) ELSE 0,
          fileSize    |-> size,
          fragTable   |-> metaStart,
          kinds       |-> kinds,
          payloads    |-> [k \in 1..n |-> BlockPayload(n, k, hasFrag, lastLen)],
          fragPayload |-> fragPayload,
          metaPayload |-> metaPayload,
          disk        |-> [i \in 1..BlocksStart |-> 7] \o blocks
                          \o (IF hasFrag THEN fragStored \o metaHeader \o metaStored
                              ELSE <<>>) ]

\* n blocks, compressed and uncompressed in turn
DenseKinds(n) == [k \in 1..n |-> IF k % 2 = 1 THEN "gz" ELSE "raw"]

\* n compressed blocks, but block j is a hole
SparseKinds(n, j) == [k \in 1..n |-> IF k = j THEN "sparse" ELSE "gz"]

\* the files of kinds ks: with a tail in a compressed or in an uncompressed
\* fragment block, and without a fragment, the last block full or partial
Tails(ks, raws) ==
    { MkImage(ks, TRUE, l, raw, raw) : l \in {1, BlockSize - 1}, raw \in raws }
    \cup
    { MkImage(ks, FALSE, l, FALSE, FALSE) :
        l \in IF ks = <<>> THEN {0} ELSE {1, BlockSize} }

\* files without holes
DenseImages == UNION { Tails(DenseKinds(n), BOOLEAN) : n \in 0..MaxBlocks }

\* files with one hole
SparseImages ==
    UNION { UNION { Tails(SparseKinds(n, j), {FALSE}) : j \in 1..n } : n \in 1..MaxBlocks }

\* n blocks whose entries carry unused bits, compressed and uncompressed in
\* turn
HighKinds(n) == [k \in 1..n |-> IF k % 2 = 1 THEN "gzHigh" ELSE "rawHigh"]

\* files whose entries carry unused bits
HighImages == UNION { Tails(HighKinds(n), {FALSE}) : n \in 1..MaxBlocks }

\* an image whose inode gives the file one byte more than its blocks and its
\* fragment hold
LongerFile(im) == [im EXCEPT !.fileSize = @ + 1]

\* an image whose compressed fragment block inflates to the bytes before the
\* tail of the file only
ShortFragment(im) == [im EXCEPT !.fragPayload = FragPrefix]

\* files that are shorter in the image than their inode says
ShortImages ==
    { LongerFile(MkImage(DenseKinds(n), FALSE, l, FALSE, FALSE)) :
        n \in 1..MaxBlocks, l \in {1, BlockSize} }
    \cup { ShortFragment(MkImage(DenseKinds(n), TRUE, 1, FALSE, FALSE)) : n \in 0..1 }

\* the content of the file: what a reader of the format must return
FileBytes(im) ==
    [i \in 1..im.fileSize |->
        LET k == ((i - 1) \div BlockSize) + 1
        IN  IF k <= Len(im.kinds) /\ im.kinds[k] = "sparse" THEN 0 ELSE i]

(***************************************************************************)
(* The block cache: a singly linked list of cachedBlock nodes from head    *)
(* (least recently used) to tail, and the bytes still free.                *)
(***************************************************************************)
\* the cachedBlock nodes the pool can hand out
Nodes == 1..CacheSize

newBlockCache(length) ==
    [ head |-> NIL, tail |-> NIL, bytesRemaining |-> length,
      nodes |-> [x \in Nodes |-> [ptr |-> 0, data |-> <<>>, next |-> NIL]] ]

\* the nodes reachable from node x, in list order
RECURSIVE Chain(_, _, _)
Chain(c, x, fuel) ==
    IF x = NIL \/ fuel = 0 THEN <<>>
    ELSE <<x>> \o Chain(c, c.nodes[x].next, fuel - 1)

CacheList(c) == Chain(c, c.head, CacheSize + 1)

\* the blocks a cache holds, the least recently used first
CacheEntries(c) ==
    [i \in 1..Len(CacheList(c)) |->
        [ptr |-> c.nodes[CacheList(c)[i]].ptr, data |-> c.nodes[CacheList(c)[i]].data]]

\* the keys of the blocks a cache holds
CachedKeys(c) == { CacheEntries(c)[i].ptr : i \in 1..Len(CacheEntries(c)) }

\* the loop of getExistingBlock: <<predecessor, node>> of the first node
\* whose ptr is ptr, <<NIL, NIL>> when the list has none
RECURSIVE findNode(_, _, _, _)
findNode(c, prev, curr, ptr) ==
    IF curr = NIL THEN <<NIL, NIL>>
    ELSE IF c.nodes[curr].ptr = ptr THEN <<prev, curr>>
    ELSE findNode(c, curr, c.nodes[curr].next, ptr)

\* a lookup that leaves the list as it is
getExistingBlockNoPromote(c, ptr) ==
    LET found(curr) ==
            IF curr = NIL THEN [hit |-> FALSE, data |-> <<>>, cache |-> c]
            ELSE [hit |-> TRUE, data |-> c.nodes[curr].data, cache |-> c]
        at(f) == found(f[2])
    IN  at(findNode(c, NIL, c.head, ptr))

getExistingBlock(c, ptr) ==
    LET \* *node = curr.next
        unlink(prev, next) ==
            IF prev = NIL THEN [c EXCEPT !.head = next]
            ELSE [c EXCEPT !.nodes[prev].next = next]
        \* b.tail.next = curr; b.tail = curr; curr.next = nil
        toTail(c1, curr) ==
            [c1 EXCEPT !.nodes[c1.tail].next = curr, !.tail = curr,
                       !.nodes[curr].next = NIL]
        found(prev, curr) ==
            IF curr = NIL THEN [hit |-> FALSE, data |-> <<>>, cache |-> c]
            ELSE [hit |-> TRUE, data |-> c.nodes[curr].data,
                  cache |-> IF curr # c.tail
                            THEN toTail(unlink(prev, c.nodes[curr].next), curr)
                            ELSE c]
        at(f) == found(f[1], f[2])
    IN  at(findNode(c, NIL, c.head, ptr))

RECURSIVE clearSpaceFrom(_, _, _)
clearSpaceFrom(c, node, l) ==
    IF node # NIL /\ c.bytesRemaining < l
    THEN LET c1 == [c EXCEPT !.bytesRemaining = @ + Len(c.nodes[node].data),
                             !.head = c.nodes[node].next,
                             !.nodes[node].data = <<>>,
                             !.nodes[node].next = NIL]
         IN  clearSpaceFrom(c1, c1.nodes[node].next, l)
    ELSE c

clearSpace(c, l) == clearSpaceFrom(c, c.head, l)

\* cbPool.Get: a node that is not in the list
poolGet(c) ==
    LET l == CacheList(c)
        free == Nodes \ {l[i] : i \in 1..Len(l)}
    IN  CHOOSE x \in free : \A y \in free : x <= y

\* addData without the test of the bytes that remain
addDataUnchecked(c, ptr, data) ==
    LET link(c1, node) ==
            IF c1.head = NIL
            THEN [c1 EXCEPT !.head = node, !.tail = node,
                            !.bytesRemaining = @ - Len(data)]
            ELSE [c1 EXCEPT !.nodes[c1.tail].next = node, !.tail = node,
                            !.bytesRemaining = @ - Len(data)]
        put(node) ==
            link([c EXCEPT !.nodes[node].ptr = ptr, !.nodes[node].data = data], node)
    IN  put(poolGet(c))

addData(c, ptr, data) ==
    LET link(c1, node) ==
            IF c1.head = NIL
            THEN [c1 EXCEPT !.head = node, !.tail = node,
                            !.bytesRemaining = @ - Len(data)]
            ELSE [c1 EXCEPT !.nodes[c1.tail].next = node, !.tail = node,
                            !.bytesRemaining = @ - Len(data)]
        put(node) ==
            link([c EXCEPT !.nodes[node].ptr = ptr, !.nodes[node].data = data], node)
    IN  IF c.bytesRemaining < Len(data) THEN c ELSE put(poolGet(c))

\* the payload a zlib stream of the image inflates to
Payload(im, token) ==
    IF token = FragToken THEN im.fragPayload
    ELSE IF token = MetaToken THEN im.metaPayload
    ELSE im.payloads[0 - token]

\* io.NewSectionReader(s.reader, start, size) read to its end
Section(im, start, size) == Slice(im.disk, start, Min(start + size, Len(im.disk)))

\* decompressBlock: with a compressor the bytes must be one zlib stream
decompressBlock(im, bytes, compressed) ==
    IF ~compressed THEN [err |-> ErrNone, data |-> bytes]
    ELSE IF Len(bytes) = 0 THEN [err |-> ErrUnexpectedEOF, data |-> <<>>]
    ELSE IF Len(bytes) = 1 /\ bytes[1] < 0
         THEN [err |-> ErrNone, data |-> Payload(im, bytes[1])]
    ELSE [err |-> ErrZlib, data |-> <<>>]

getOrSetBlock(im, c, ptr, bytes, compressed) ==
    LET set(d) ==
            IF d.err # ErrNone THEN [err |-> d.err, data |-> <<>>, cache |-> c]
            ELSE [err |-> ErrNone, data |-> d.data,
                  cache |-> addData(clearSpace(c, Len(d.data)), ptr, d.data)]
        get(e) ==
            IF e.hit THEN [err |-> ErrNone, data |-> e.data, cache |-> e.cache]
            ELSE set(decompressBlock(im, bytes, compressed))
    IN  get(getExistingBlock(c, ptr))

(***************************************************************************)
(* Readers.  A bytes.Reader over data is the record with sect = FALSE; an  *)
(* io.SectionReader over data (a cached block or the byte source) keeps    *)
(* absolute offsets base <= off and the limit.                             *)
(***************************************************************************)
NoReader == [kind |-> "nil", data |-> <<>>, base |-> 0, limit |-> 0, off |-> 0]

bytesNewReader(data) ==
    [kind |-> "bytes", data |-> data, base |-> 0, limit |-> Len(data), off |-> 0]

NewSectionReader(data, off, n) ==
    [kind |-> "section", data |-> data, base |-> off, limit |-> off + n, off |-> off]

\* Read(p) with len(p) = L on a bytes.Reader or an io.SectionReader
ReaderRead(r, L) ==
    IF r.kind = "bytes"
    THEN IF r.off >= Len(r.data)
         THEN [n |-> 0, data |-> <<>>, err |-> EOF, reader |-> r]
         ELSE LET n == Min(L, Len(r.data) - r.off)
              IN  [n |-> n, data |-> Slice(r.data, r.off, r.off + n), err |-> ErrNone,
                   reader |-> [r EXCEPT !.off = @ + n]]
    ELSE IF r.off >= r.limit
         THEN [n |-> 0, data |-> <<>>, err |-> EOF, reader |-> r]
         ELSE LET want == Min(L, r.limit - r.off)
                  \* ReadAt of the underlying reader
                  n == IF r.off >= Len(r.data) THEN 0
                       ELSE Min(want, Len(r.data) - r.off)
              IN  [n |-> n, data |-> Slice(r.data, r.off, r.off + n),
                   err |-> IF n < want \/ r.off >= Len(r.data) THEN EOF ELSE ErrNone,
                   reader |-> [r EXCEPT !.off = @ + n]]

\* Seek(offset, io.SeekStart)
ReaderSeek(r, offset) ==
    IF offset < 0 THEN [err |-> ErrInvalid, reader |-> r]
    ELSE [err |-> ErrNone, reader |-> [r EXCEPT !.off = r.base + offset]]

(***************************************************************************)
(* The file handle.                                                        *)
(***************************************************************************)
\* the offset in the block forgotten
getBlockOffsetNoSkip(p) == << p \div BlockSize, 0 >>

getBlockOffset(p) == << p \div BlockSize, p % BlockSize >>

\* the test of the earlier revisions, which took all of bits 24 to 31
IsCompressedWide(size) == size \div compressionMask = 0

\* size & compressionMask == 0
IsCompressed(size) == (size \div compressionMask) % 2 = 0

RECURSIVE SumSizes(_, _)
SumSizes(sizes, k) ==
    IF k = 0 THEN 0 ELSE (sizes[k] % compressionMask) + SumSizes(sizes, k - 1)

getBlockReader(im, c, block) ==
    LET wrap(g) ==
            [err |-> g.err, cache |-> g.cache,
             reader |-> IF g.err = ErrNone THEN bytesNewReader(g.data) ELSE NoReader]
        at(start, size) ==
            wrap(getOrSetBlock(im, c, start, Section(im, start, size % compressionMask),
                               IsCompressed(size)))
    IN  at(im.blocksStart + SumSizes(im.blockSizes, block), im.blockSizes[block + 1])

\* the fragment descriptor, read through the metadata stream of the table
readMetadataFromLookupTable(im, c) ==
    LET block(ptr, header) ==
            IF header[2] = 1
            THEN [err |-> ErrNone, cache |-> c,
                  data |-> Section(im, ptr + blockHeaderSize, header[1])]
            ELSE getOrSetBlock(im, c, ptr, Section(im, ptr + blockHeaderSize, header[1]),
                               TRUE)
    IN  block(im.fragTable, Section(im, im.fragTable, blockHeaderSize))

getFragmentDetails(im, c) ==
    LET details(g) ==
            IF g.err # ErrNone
            THEN [err |-> g.err, start |-> 0, size |-> 0, cache |-> g.cache]
            ELSE IF g.data[3] # 0
            THEN [err |-> ErrInvalid, start |-> 0, size |-> 0, cache |-> g.cache]
            ELSE [err |-> ErrNone, start |-> g.data[1], size |-> g.data[2],
                  cache |-> g.cache]
    IN  details(readMetadataFromLookupTable(im, c))

getFragmentReader(im, c) ==
    LET fragmentSize == im.fileSize % BlockSize
        wrap(g) ==
            [err |-> g.err, cache |-> g.cache,
             reader |-> IF g.err = ErrNone
                        THEN NewSectionReader(g.data, im.blockOffset, fragmentSize)
                        ELSE NoReader]
        open(d) ==
            IF d.err # ErrNone THEN [err |-> d.err, cache |-> d.cache, reader |-> NoReader]
            ELSE IF IsCompressed(d.size)
            THEN wrap(getOrSetBlock(im, d.cache, d.start, Section(im, d.start, d.size),
                                    TRUE))
            ELSE [err |-> ErrNone, cache |-> d.cache,
                  reader |-> NewSectionReader(im.disk, d.start + im.blockOffset,
                                              fragmentSize)]
    IN  open(getFragmentDetails(im, c))

getReader(im, c, block) ==
    IF block < Len(im.blockSizes) THEN getBlockReader(im, c, block)
    ELSE IF im.fragIndex # fieldDisabled THEN getFragmentReader(im, c)
    ELSE [err |-> EOF, cache |-> c, reader |-> NoReader]

getOffsetReader(im, c, p) ==
    LET seek(g, sk) == [err |-> sk.err, cache |-> g.cache, reader |-> sk.reader]
        at(g, offset) ==
            IF g.err # ErrNone THEN g
            ELSE IF offset > 0 THEN seek(g, ReaderSeek(g.reader, offset))
            ELSE g
    IN  IF p < 0 \/ p >= im.fileSize
        THEN [err |-> ErrUnexpectedEOF, cache |-> c, reader |-> NoReader]
        ELSE at(getReader(im, c, getBlockOffset(p)[1]), getBlockOffset(p)[2])

\* h is the pair of fields (pos, reader) of a file
prepareReader(im, h, c) ==
    LET set(g) ==
            IF g.err # ErrNone THEN [err |-> g.err, cache |-> g.cache, h |-> h]
            ELSE [err |-> ErrNone, cache |-> g.cache, h |-> [h EXCEPT !.reader = g.reader]]
    IN  IF h.reader.kind # "nil" THEN [err |-> ErrNone, cache |-> c, h |-> h]
        ELSE IF h.pos = im.fileSize THEN [err |-> EOF, cache |-> c, h |-> h]
        ELSE set(getOffsetReader(im, c, h.pos))

\* one level of file.read: everything but the recursive call, which is
\* made when more is TRUE
readLevel(im, h, c, L) ==
    LET \* io.EOF before the end of the file drops the reader
        level(pr, rd, drop) ==
            [h |-> [pos |-> h.pos + rd.n,
                    reader |-> IF drop THEN NoReader ELSE rd.reader],
             cache |-> pr.cache, n |-> rd.n, data |-> rd.data,
             err |-> IF drop THEN ErrNone ELSE rd.err,
             more |-> (drop \/ rd.err = ErrNone) /\ rd.n < L]
        readFrom(pr, rd) == level(pr, rd, rd.err = EOF /\ h.pos + rd.n < im.fileSize)
        prepared(pr) ==
            IF pr.err # ErrNone
            THEN [h |-> h, cache |-> pr.cache, n |-> 0, data |-> <<>>, err |-> pr.err,
                  more |-> FALSE]
            ELSE readFrom(pr, ReaderRead(pr.h.reader, L))
    IN  prepared(prepareReader(im, h, c))

\* the goroutine stack: a recursion deeper than this never returns
MaxDepth == 2 * (MaxBuf + MaxBlocks + 2)
ErrOverflow == "stack overflow"

RECURSIVE read(_, _, _, _, _)
read(im, h, c, L, depth) ==
    LET join(lv, rest) ==
            [h |-> rest.h, cache |-> rest.cache, n |-> lv.n + rest.n,
             data |-> lv.data \o rest.data, err |-> rest.err]
        next(lv) ==
            IF ~lv.more THEN [h |-> lv.h, cache |-> lv.cache, n |-> lv.n,
                              data |-> lv.data, err |-> lv.err]
            ELSE IF depth >= MaxDepth
            THEN [h |-> lv.h, cache |-> lv.cache, n |-> lv.n, data |-> lv.data,
                  err |-> ErrOverflow]
            ELSE join(lv, read(im, lv.h, lv.cache, L - lv.n, depth + 1))
    IN  next(readLevel(im, h, c, L))

setPos(im, h, base) ==
    LET seek(sk) ==
            IF sk.err # ErrNone THEN [h |-> h, p |-> h.pos, err |-> sk.err]
            ELSE [h |-> [pos |-> base, reader |-> sk.reader], p |-> base, err |-> ErrNone]
    IN  IF h.reader.kind = "nil"
        THEN [h |-> [h EXCEPT !.pos = base], p |-> base, err |-> ErrNone]
        ELSE IF getBlockOffset(h.pos)[1] # getBlockOffset(base)[1]
        THEN [h |-> [pos |-> base, reader |-> NoReader], p |-> base, err |-> ErrNone]
        ELSE seek(ReaderSeek(h.reader, getBlockOffset(base)[2]))

(***************************************************************************)
(* Paths and names are Go strings: sequences of bytes, byte 0 first.        *)
(***************************************************************************)
\* the characters the names of the model are written with, and their bytes
Chars == "./ABCDEFXdefiklnopr"
Codes == << 46, 47, 65, 66, 67, 68, 69, 70, 88, 100, 101, 102, 105, 107, 108, 110,
            111, 112, 114 >>

Ord(ch) == Codes[CHOOSE i \in 1..Len(Chars) : SubSeq(Chars, i, i) = ch]

\* the Go string written s
Str(s) == [i \in 1..Len(s) |-> Ord(SubSeq(s, i, i))]

Slash == Str("/")[1]
Dot == Str(".")
DotDot == Str("..")

\* strings.IndexByte(s, c), -1 when c is not in s
IndexByte(s, c) ==
    IF \E i \in 1..Len(s) : s[i] = c
    THEN (CHOOSE i \in 1..Len(s) : s[i] = c /\ \A j \in 1..(i - 1) : s[j] # c) - 1
    ELSE 0 - 1

\* a < b of Go strings
StrLess(a, b) ==
    \E i \in 1..(Len(b)) :
        /\ \A j \in 1..(i - 1) : j <= Len(a) /\ a[j] = b[j]
        /\ (i > Len(a) \/ (i - 1 < Len(a) /\ a[i] < b[i]))

\* strings.Split(s, "/")
RECURSIVE SplitPath(_)
SplitPath(s) ==
    LET at(i) ==
            IF i < 0 THEN << s >>
            ELSE << Slice(s, 0, i) >> \o Let(Slice(s, i + 1, Len(s)), SplitPath)
    IN  Let(IndexByte(s, Slash), at)

\* strings.Join(elems, "/")
RECURSIVE JoinPath(_)
JoinPath(elems) ==
    IF elems = <<>> THEN <<>>
    ELSE IF Len(elems) = 1 THEN elems[1]
    ELSE elems[1] \o << Slash >> \o JoinPath(Tail(elems))

\* fs.ValidPath
ValidPath(name) ==
    \/ name = Dot
    \/ Let(SplitPath(name),
           LAMBDA elems : \A i \in 1..Len(elems) : elems[i] \notin { <<>>, Dot, DotDot })

\* the elements path.Clean keeps, out being those kept so far
RECURSIVE CleanElems(_, _, _)
CleanElems(elems, out, rooted) ==
    LET rest(kept) == CleanElems(Tail(elems), kept, rooted)
    IN  IF elems = <<>> THEN out
        ELSE IF elems[1] = <<>> \/ elems[1] = Dot THEN rest(out)
        ELSE IF elems[1] # DotDot THEN Let(Append(out, elems[1]), rest)
        ELSE IF out # <<>> /\ out[Len(out)] # DotDot
             THEN Let(SubSeq(out, 1, Len(out) - 1), rest)
        ELSE IF rooted THEN rest(out)
        ELSE Let(Append(out, DotDot), rest)

\* path.Clean
Clean(p) ==
    LET rooted == p # <<>> /\ p[1] = Slash
        text(kept) ==
            IF rooted THEN << Slash >> \o kept
            ELSE IF kept = <<>> THEN Dot
            ELSE kept
    IN  Let(SplitPath(p),
            LAMBDA elems : Let(JoinPath(CleanElems(elems, <<>>, rooted)), text))

\* path.Join
Join(elems) ==
    LET joined(some) == IF some = <<>> THEN <<>> ELSE Let(JoinPath(some), Clean)
    IN  Let(SelectSeq(elems, LAMBDA e : e # <<>>), joined)

(***************************************************************************)
(* The directory tree of the image.  Inodes[i] is the inode at offset i of  *)
(* the inode table; the entries of a directory are sorted by name.          *)
(***************************************************************************)
File(perms) == [typ |-> inodeBasicFile, perms |-> perms, target |-> <<>>, entries |-> <<>>]
Symlink(target) ==
    [typ |-> inodeBasicSymlink, perms |-> 511, target |-> Str(target), entries |-> <<>>]
\* a directory whose listing is one group of entries under one header
Dir(perms, entries) ==
    [typ |-> inodeBasicDir, perms |-> perms, target |-> <<>>, entries |-> entries,
     groups |-> IF entries = <<>> THEN <<>> ELSE << entries >>,
     starts |-> IF entries = <<>> THEN <<>> ELSE << 0 >>]
\* a directory whose listing is several groups, each under a header of its own
GroupedDir(perms, groups) ==
    [typ |-> inodeBasicDir, perms |-> perms, target |-> <<>>, entries |-> Concat(groups),
     groups |-> groups, starts |-> [g \in 1..Len(groups) |-> 0]]
\* a directory whose groups name inode metablocks other than the first: the
\* header of group g carries starts[g]
StartedDir(perms, groups, starts) ==
    [typ |-> inodeBasicDir, perms |-> perms, target |-> <<>>, entries |-> Concat(groups),
     groups |-> groups, starts |-> starts]
Entry(name, ino) == [name |-> Str(name), ino |-> ino]

RootInode == 1

\* the start of an inode metablock that lies more than 2^16 bytes into the
\* inode table
FarStart == 65537

Inodes ==
    << Dir(493, << Entry("dirB", 13), Entry("dirC", 2), Entry("dirD", 3), Entry("dirE", 7),
                   Entry("dirF", 8), Entry("dirX", 9), Entry("link", 10),
                   Entry("lone", 14), Entry("loop", 11) >>),
       Dir(493, << Entry("fileB", 4), Entry("fileC", 5) >>),
       Dir(493, << Entry("fileD", 6), Entry("fileE", 12) >>),
       File(420),
       Symlink("fileB"),
       Symlink("../dirC/fileB"),
       Symlink("dirC"),
       Symlink("/dirC"),
       Dir(0, <<>>),
       Symlink("dirE"),
       Symlink("loop"),
       Symlink("/dirC/fileB"),
       GroupedDir(493, << << Entry("fileB", 4) >>,
                          << Entry("fileC", 5), Entry("fileD", 6) >> >>),
       Symlink("fileX"),
       StartedDir(493, << << Entry("fileB", 4), Entry("fileC", 5) >>, << Entry("fileD", 6) >> >>,
                  << FarStart, 2 >>) >>

\* n bytes, least significant first
RECURSIVE LittleEndian(_, _)
LittleEndian(v, n) ==
    IF n = 0 THEN <<>> ELSE << v % 256 >> \o LittleEndian(v \div 256, n - 1)

RECURSIVE FromLittleEndian(_)
FromLittleEndian(bytes) ==
    IF bytes = <<>> THEN 0 ELSE bytes[1] + 256 * FromLittleEndian(Tail(bytes))

\* a directory entry as the directory table stores it: the offset of the
\* inode, the inode number offset, the type, the length of the name less one
DirEntryBytes(e) ==
    LittleEndian(e.ino, 2) \o LittleEndian(0, 2) \o LittleEndian(Inodes[e.ino].typ, 2)
    \o LittleEndian(Len(e.name) - 1, 2) \o e.name

RECURSIVE EntriesBytes(_)
EntriesBytes(entries) ==
    IF entries = <<>> THEN <<>>
    ELSE DirEntryBytes(entries[1]) \o EntriesBytes(Tail(entries))

\* the listing of a directory: one group, its header giving the number of
\* entries less one, the start of the inode metablock and an inode number
GroupListing(entries, start) ==
    IF entries = <<>> THEN <<>>
    ELSE LittleEndian(Len(entries) - 1, 4) \o LittleEndian(start, 4) \o LittleEndian(1, 4)
         \o EntriesBytes(entries)

Listing(entries) == GroupListing(entries, 0)

\* the listing of a directory inode: its groups back to back
DirListing(inode) ==
    IF inode.typ # inodeBasicDir THEN <<>>
    ELSE Concat([g \in 1..Len(inode.groups) |->
                    GroupListing(inode.groups[g], inode.starts[g])])

\* the directory table: the listings in the order of the inodes
RECURSIVE ListingsUpTo(_)
ListingsUpTo(i) ==
    IF i = 0 THEN <<>> ELSE ListingsUpTo(i - 1) \o DirListing(Inodes[i])

DirTable == ListingsUpTo(Len(Inodes))

\* the fields of the inode of a directory
dirStat(ino) ==
    [ blockIndex  |-> 0,
      blockOffset |-> Len(ListingsUpTo(ino - 1)),
      fileSize    |-> Len(DirListing(Inodes[ino])) + dirFileSizeOffset,
      linkCount   |-> Len(Inodes[ino].entries) + dirLinkCountOffset ]

\* a FileInfo: the inode and the name it was reached by
NoInfo == [ino |-> 0, name |-> <<>>]

getEntry(inode, name) ==
    IF inode \in 1..Len(Inodes)
    THEN [err |-> ErrNone, info |-> [ino |-> inode, name |-> name]]
    ELSE [err |-> ErrInvalid, info |-> NoInfo]

\* Mode()&0o444 of an inode
ReadBits(perms) == ((perms \div 256) % 2) + ((perms \div 32) % 2) + ((perms \div 4) % 2)

(***************************************************************************)
(* Reading a directory.  ler is a StickyLittleEndianReader on a LimitReader *)
(* on the metadata stream of the directory table: off is the byte of the    *)
(* table it reads next, left the bytes the limit still allows.              *)
(***************************************************************************)
newLer(off, limit) == [off |-> off, left |-> limit, err |-> ErrNone]

\* io.ReadFull of n bytes; nothing once the reader has failed
ReadBytes(l, n) ==
    LET avail == Min(l.left, Len(DirTable) - l.off)
    IN  IF l.err # ErrNone THEN [ler |-> l, bytes |-> <<>>]
        ELSE IF avail >= n
        THEN [ler |-> [l EXCEPT !.off = @ + n, !.left = @ - n],
              bytes |-> Slice(DirTable, l.off, l.off + n)]
        ELSE [ler |-> [l EXCEPT !.off = @ + Max(avail, 0), !.left = @ - Max(avail, 0),
                                !.err = IF avail <= 0 THEN EOF ELSE ErrUnexpectedEOF],
              bytes |-> <<>>]

\* ReadUint16 and ReadUint32
ReadUint(l, n) ==
    LET value(r) == [ler |-> r.ler, v |-> FromLittleEndian(r.bytes)]
    IN  Let(ReadBytes(l, n), value)

\* d holds the fields count, start and read of a dir
readDirEntry(d, l) ==
    LET named(d1, offset, typ, name) ==
            [d |-> [d1 EXCEPT !.read = @ + 1], ler |-> name.ler,
             entry |-> [typ |-> typ.v, name |-> name.bytes,
                        ptr |-> (d1.start % (2 ^ metadataPointerShift)) * (2 ^ metadataPointerShift)
                               + offset.v]]
        sized(d1, offset, typ, size) ==
            Let(ReadBytes(size.ler, size.v + 1), LAMBDA name : named(d1, offset, typ, name))
        typed(d1, offset, typ) ==
            Let(ReadUint(typ.ler, 2), LAMBDA size : sized(d1, offset, typ, size))
        skipped(d1, offset, inodeOffset) ==
            Let(ReadUint(inodeOffset.ler, 2), LAMBDA typ : typed(d1, offset, typ))
        at(d1, offset) ==
            Let(ReadUint(offset.ler, 2), LAMBDA inodeOffset : skipped(d1, offset, inodeOffset))
        entry(d1, l1) == Let(ReadUint(l1, 2), LAMBDA offset : at(d1, offset))
        number(count, start, inode) ==
            entry([d EXCEPT !.count = count.v + 1, !.start = start.v], inode.ler)
        started(count, start) ==
            Let(ReadUint(start.ler, 4), LAMBDA inode : number(count, start, inode))
        counted(count) == Let(ReadUint(count.ler, 4), LAMBDA start : started(count, start))
    IN  IF d.count = 0 THEN Let(ReadUint(l, 4), counted)
        ELSE entry([d EXCEPT !.count = @ - 1], l)

\* the loop of getDirEntry
RECURSIVE scanDir(_, _, _)
scanDir(name, d, l) ==
    LET next(r) ==
            IF r.ler.err = EOF THEN [err |-> ErrNotExist, info |-> NoInfo, read |-> r.d.read]
            ELSE IF r.ler.err # ErrNone
            THEN [err |-> r.ler.err, info |-> NoInfo, read |-> r.d.read]
            ELSE IF r.entry.name = name
            THEN Let(getEntry(r.entry.ptr, r.entry.name),
                     LAMBDA e : [err |-> e.err, info |-> e.info, read |-> r.d.read])
            ELSE IF StrLess(name, r.entry.name)
            THEN [err |-> ErrNotExist, info |-> NoInfo, read |-> r.d.read]
            ELSE scanDir(name, r.d, r.ler)
    IN  Let(readDirEntry(d, l), next)

getDirEntry(name, index, offset, totalSize) ==
    scanDir(name, [count |-> 0, start |-> 0, read |-> 0],
            newLer(offset, totalSize - dirFileSizeOffset))

(***************************************************************************)
(* The directory handle.  d holds the fields of a dir: the inode, closed    *)
(* for squashfs = nil, the position and the limit of its reader, and count, *)
(* start and read.                                                          *)
(***************************************************************************)
newDir(ino) ==
    [ ino |-> ino, closed |-> FALSE, off |-> dirStat(ino).blockOffset,
      left |-> dirStat(ino).fileSize - dirFileSizeOffset,
      count |-> 0, start |-> 0, read |-> 0 ]

\* the loop of readDir, m entries being read so far
RECURSIVE readDirLoop(_, _, _, _)
readDirLoop(d, l, n, entries) ==
    LET next(r) ==
            IF r.ler.err # ErrNone
            THEN IF n > 0 \/ r.ler.err # EOF
                 THEN [d |-> r.d, ler |-> r.ler, err |-> r.ler.err, entries |-> <<>>]
                 ELSE [d |-> r.d, ler |-> r.ler, err |-> ErrNone, entries |-> entries]
            ELSE readDirLoop(r.d, r.ler, n, Append(entries, r.entry.name))
    IN  IF Len(entries) >= n
        THEN [d |-> d, ler |-> l, err |-> ErrNone, entries |-> entries]
        ELSE Let(readDirEntry(d, l), next)

readDir(d, n) ==
    LET done(r) ==
            [err |-> r.err, entries |-> r.entries,
             d |-> [d EXCEPT !.count = r.d.count, !.start = r.d.start,
                             !.read = r.d.read, !.off = r.ler.off, !.left = r.ler.left]]
    IN  Let(readDirLoop([count |-> d.count, start |-> d.start, read |-> d.read],
                        newLer(d.off, d.left), n, <<>>), done)

(***************************************************************************)
(* Path resolution.  r holds the fields of a resolver.                      *)
(***************************************************************************)
isEmptyName(name) == name = <<>> \/ name = Dot

isDone(r, resolveLast) == r.path = <<>> /\ ~resolveLast

splitOffNamePart(r) ==
    LET slashPos == IndexByte(r.path, Slash)
    IN  IF slashPos = 0 - 1
        THEN [name |-> r.path, r |-> [r EXCEPT !.path = <<>>]]
        ELSE [name |-> Slice(r.path, 0, slashPos),
              r |-> [r EXCEPT !.path = Slice(r.path, slashPos + 1, Len(r.path)),
                              !.cutAt = @ + slashPos + 1]]

\* the budget of redirects never spent
handleSymlinkNoBudget(r, sym) ==
    [err |-> ErrNone, r |-> [r EXCEPT !.path = r.fullPath, !.cutAt = 0]]

\* a budget that fails one symlink later
handleSymlinkLateFail(r, sym) ==
    LET targetPath == Inodes[sym.ino].target
        to(fullPath) ==
            [err |-> ErrNone,
             r |-> [r EXCEPT !.redirectsRemaining = @ - 1, !.fullPath = fullPath,
                             !.path = fullPath, !.cutAt = 0]]
    IN  IF r.redirectsRemaining - 1 < 0
        THEN [err |-> ErrInvalid, r |-> [r EXCEPT !.redirectsRemaining = @ - 1]]
        ELSE IF targetPath # <<>> /\ targetPath[1] = Slash
        THEN Let(Clean(targetPath), LAMBDA cleaned : to(Slice(cleaned, 1, Len(cleaned))))
        ELSE IF r.path = <<>>
        THEN Let(Join(<< Slice(r.fullPath, 0, r.cutAt), targetPath >>), to)
        ELSE Let(Join(<< Slice(r.fullPath, 0, r.cutAt - Len(sym.name) - 1), targetPath,
                         r.path >>), to)

\* sym is the FileInfo of a symlink
handleSymlink(r, sym) ==
    LET targetPath == Inodes[sym.ino].target
        to(fullPath) ==
            [err |-> ErrNone,
             r |-> [r EXCEPT !.redirectsRemaining = @ - 1, !.fullPath = fullPath,
                             !.path = fullPath, !.cutAt = 0]]
    IN  IF r.redirectsRemaining - 1 = 0
        THEN [err |-> ErrInvalid, r |-> [r EXCEPT !.redirectsRemaining = @ - 1]]
        ELSE IF targetPath # <<>> /\ targetPath[1] = Slash
        THEN Let(Clean(targetPath), LAMBDA cleaned : to(Slice(cleaned, 1, Len(cleaned))))
        ELSE IF r.path = <<>>
        THEN Let(Join(<< Slice(r.fullPath, 0, r.cutAt), targetPath >>), to)
        ELSE Let(Join(<< Slice(r.fullPath, 0, r.cutAt - Len(sym.name) - 1), targetPath,
                         r.path >>), to)

\* one pass of the loop of resolver.resolve, curr being the entry reached:
\* ret tells that resolve returns
resolveLoop(r, curr, root, resolveLast) ==
    LET return(info, err) == [ret |-> TRUE, r |-> r, curr |-> info, err |-> err]
        redirected(h) ==
            IF h.err # ErrNone THEN [ret |-> TRUE, r |-> h.r, curr |-> NoInfo, err |-> h.err]
            ELSE [ret |-> FALSE, r |-> h.r, curr |-> root, err |-> ErrNone]
        entered(r1, name, g) ==
            IF g.err # ErrNone THEN [ret |-> TRUE, r |-> r1, curr |-> NoInfo, err |-> g.err]
            ELSE IF isDone(r1, resolveLast)
            THEN [ret |-> TRUE, r |-> r1, curr |-> g.info, err |-> ErrNone]
            ELSE IF Inodes[g.info.ino].typ # inodeBasicSymlink
            THEN [ret |-> FALSE, r |-> r1, curr |-> g.info, err |-> ErrNone]
            ELSE Let(handleSymlink(r1, g.info), redirected)
        named(sp) ==
            IF isEmptyName(sp.name)
            THEN [ret |-> FALSE, r |-> sp.r, curr |-> curr, err |-> ErrNone]
            ELSE Let(getDirEntry(sp.name, dirStat(curr.ino).blockIndex,
                                 dirStat(curr.ino).blockOffset,
                                 dirStat(curr.ino).fileSize),
                     LAMBDA g : entered(sp.r, sp.name, g))
    IN  IF r.path = <<>> THEN return(curr, ErrNone)
        ELSE IF ReadBits(Inodes[curr.ino].perms) = 0 THEN return(NoInfo, ErrPermission)
        ELSE IF Inodes[curr.ino].typ # inodeBasicDir THEN return(NoInfo, ErrInvalid)
        ELSE Let(splitOffNamePart(r), named)

\* what the calls of the API make of the result of resolve
Returned(op, info, err) ==
    IF err # ErrNone THEN [info |-> NoInfo, err |-> err, target |-> <<>>]
    ELSE IF op = "Readlink"
    THEN IF Inodes[info.ino].typ = inodeBasicSymlink
         THEN [info |-> info, err |-> ErrNone, target |-> Inodes[info.ino].target]
         ELSE [info |-> NoInfo, err |-> ErrInvalid, target |-> <<>>]
    ELSE IF op = "Open" /\ Inodes[info.ino].typ \notin {inodeBasicFile, inodeBasicDir}
    THEN [info |-> NoInfo, err |-> ErrInvalid, target |-> <<>>]
    ELSE [info |-> info, err |-> ErrNone, target |-> <<>>]

(***************************************************************************)
(* Metadata streams.  A table of the image is a chain of metablocks, each  *)
(* a 2-byte header and the bytes it sizes; a blockReader holds the reader  *)
(* r of the metablock it has taken and the offset next.  trail is the log  *)
(* of the headers the stream has read: the offset o of each and the size s *)
(* it carries, -1 for a header the byte source could not give.             *)
(***************************************************************************)
\* the layouts of a table: up to MaxBlocks metablocks of 1 or 2 payload bytes,
\* stored raw or compressed
MetaLayouts ==
    UNION { [1..n -> [raw : BOOLEAN, len : 1..2]] : n \in 1..MaxBlocks }

\* byte i of the payload of metablock k
MetaPayload(blocks, k) == [i \in 1..blocks[k].len |-> 10 * k + i]

MetaStored(blocks, k) ==
    IF blocks[k].raw THEN MetaPayload(blocks, k) ELSE << 0 - k >>

MetaBlockBytes(blocks, k) ==
    LittleEndian(Len(MetaStored(blocks, k))
                    + (IF blocks[k].raw THEN metadataBlockCompressedMask ELSE 0),
                 blockHeaderSize)
        \o MetaStored(blocks, k)

\* an image whose table starts at offset BlocksStart; a damaged image ends
\* with a header that carries the size 0x7fff
MetaImage(blocks, damaged) ==
    LET n == Len(blocks)
        upTo(k) == Concat([j \in 1..k |-> MetaBlockBytes(blocks, j)])
    IN  [ blocks      |-> blocks,
          damaged     |-> damaged,
          table       |-> BlocksStart,
          starts      |-> [k \in 1..(n + 1) |-> Len(upTo(k - 1))],
          payloads    |-> [k \in 1..n |-> MetaPayload(blocks, k)],
          fragPayload |-> <<>>,
          metaPayload |-> <<>>,
          disk        |-> [i \in 1..BlocksStart |-> 7] \o upTo(n)
                          \o (IF damaged THEN << 255, 255 >> ELSE <<>>) ]

MetaImages == { MetaImage(blocks, damaged) : blocks \in MetaLayouts, damaged \in BOOLEAN }

\* the value of a byte of the byte source
ByteValue(x) == x % 256

\* byteio's ReadUint16 on the 2 bytes at offset o
ReadHeader(im, o) ==
    LET bytes == Section(im, o, blockHeaderSize)
    IN  IF Len(bytes) = 0 THEN [err |-> EOF, v |-> 0]
        ELSE IF Len(bytes) < blockHeaderSize THEN [err |-> ErrUnexpectedEOF, v |-> 0]
        ELSE [err |-> ErrNone, v |-> ByteValue(bytes[1]) + 256 * ByteValue(bytes[2])]

NoBlockReader == [r |-> NoReader, next |-> 0, trail |-> <<>>]

nextReader(im, b, c) ==
    LET \* a header read again in place is logged once
        logged(size) ==
            IF b.trail # <<>> /\ b.trail[Len(b.trail)] = [o |-> b.next, s |-> size] THEN b
            ELSE [b EXCEPT !.trail = Append(@, [o |-> b.next, s |-> size])]
        cached(g, size) ==
            IF g.err # ErrNone
            THEN [err |-> g.err, cache |-> g.cache, b |-> [logged(size) EXCEPT !.r = NoReader]]
            ELSE [err |-> ErrNone, cache |-> g.cache,
                  b |-> [logged(size) EXCEPT !.r = bytesNewReader(g.data),
                                             !.next = @ + size]]
        sized(header, size) ==
            IF size > blockSize
            THEN [err |-> ErrInvalidBlockHeader, cache |-> c, b |-> logged(size)]
            ELSE IF (header \div metadataBlockCompressedMask) % 2 = 0
            THEN Let(getOrSetBlock(im, c, b.next,
                                   Section(im, b.next + blockHeaderSize, size), TRUE),
                     LAMBDA g : cached(g, size))
            ELSE [err |-> ErrNone, cache |-> c,
                  b |-> [logged(size) EXCEPT
                            !.r = NewSectionReader(im.disk, b.next + blockHeaderSize, size),
                            !.next = @ + size]]
        headed(h) ==
            IF h.err # ErrNone THEN [err |-> h.err, cache |-> c, b |-> logged(0 - 1)]
            ELSE sized(h.v, h.v % (metadataBlockSizeMask + 1))
    IN  Let(ReadHeader(im, b.next), headed)

\* blockReader.init
initReader(im, b, c, skipCount) ==
    LET skipped(nr) ==
            IF nr.err # ErrNone \/ skipCount <= 0 THEN nr
            ELSE [nr EXCEPT !.b.r = ReaderSeek(nr.b.r, skipCount).reader]
    IN  Let(nextReader(im, b, c), skipped)

readMetadataUnchecked(im, c, pointer, table) ==
    initReader(im, [NoBlockReader EXCEPT !.next = table + pointer \div (2 ^ metadataPointerShift)],
               c, pointer % (metadataPointerMask + 1))

readMetadata(im, c, pointer, table) ==
    LET onDisk == table + pointer \div (2 ^ metadataPointerShift)
        pos == pointer % (metadataPointerMask + 1)
    IN  IF pos > blockSize
        THEN [err |-> ErrInvalidPointer, cache |-> c, b |-> NoBlockReader]
        ELSE initReader(im, [NoBlockReader EXCEPT !.next = onDisk], c, pos)

\* blockReader.Read(p) with len(p) = L
RECURSIVE blockRead(_, _, _, _, _)
blockRead(im, b, c, L, depth) ==
    LET joined(data, m) ==
            [b |-> m.b, cache |-> m.cache, data |-> data \o m.data, err |-> m.err]
        chained(n, data, nr) ==
            IF nr.err # ErrNone
            THEN [b |-> nr.b, cache |-> nr.cache, data |-> data, err |-> nr.err]
            ELSE IF depth >= MaxDepth
            THEN [b |-> nr.b, cache |-> nr.cache, data |-> data, err |-> ErrOverflow]
            ELSE Let(blockRead(im, nr.b, nr.cache, L - n, depth + 1),
                     LAMBDA m : joined(data, m))
        got(rr) ==
            IF rr.err = ErrNone
            THEN [b |-> [b EXCEPT !.r = rr.reader], cache |-> c, data |-> rr.data,
                  err |-> ErrNone]
            ELSE Let(nextReader(im, [b EXCEPT !.r = rr.reader], c),
                     LAMBDA nr : chained(rr.n, rr.data, nr))
    IN  IF b.r.kind = "nil"
        THEN [b |-> b, cache |-> c, data |-> <<>>, err |-> ErrNilReader]
        ELSE Let(ReaderRead(b.r, L), got)

(***************************************************************************)
(* The superblock.  A header is the record of the fields that readFrom     *)
(* tests; ler stands for the 8 bytes after the 96 bytes of the fields, as  *)
(* the two 32-bit words w1 and w2 they hold, least significant byte first. *)
(***************************************************************************)
\* a nil CompressorOptions
NoOptions == [kind |-> "nil"]

Failed(err) == [err |-> err, opts |-> NoOptions]

\* bits.TrailingZeros32 and 32 - bits.LeadingZeros32
RECURSIVE TrailingZeros32(_)
TrailingZeros32(x) ==
    IF x = 0 THEN 32 ELSE IF x % 2 = 1 THEN 0 ELSE 1 + TrailingZeros32(x \div 2)

RECURSIVE Len32(_)
Len32(x) == IF x = 0 THEN 0 ELSE 1 + Len32(x \div 2)

LeadingZeros32(x) == 32 - Len32(x)

parseGZipOptions(ler) ==
    LET compressionlevel == ler.w1
        windowsize == ler.w2 % 65536
        strategies == ler.w2 \div 65536
    IN  IF compressionlevel = 0 \/ compressionlevel > BestCompression
        THEN Failed(ErrInvalidCompressionLevel)
        ELSE IF windowsize < minimumWindowSize \/ windowsize > maximumWindowSize
        THEN Failed(ErrInvalidWindowSize)
        ELSE IF strategies > maxStrategy THEN Failed(ErrInvalidCompressionStrategies)
        ELSE [err |-> ErrNone,
              opts |-> [kind |-> "gzip", CompressionLevel |-> compressionlevel,
                        WindowSize |-> windowsize, Strategies |-> strategies]]

DefaultGzipOptions ==
    [kind |-> "gzip", CompressionLevel |-> BestCompression,
     WindowSize |-> maximumWindowSize, Strategies |-> 0]

parseLZOOptions(ler) ==
    LET algorithm == ler.w1
        compressionlevel == ler.w2
    IN  IF algorithm > maxAlgorithm THEN Failed(ErrInvalidCompressionAlgorithm)
        ELSE IF compressionlevel > BestCompression
                    \/ (algorithm # 4 /\ compressionlevel # 0)
        THEN Failed(ErrInvalidCompressionLevel)
        ELSE [err |-> ErrNone,
              opts |-> [kind |-> "lzo", Algorithm |-> algorithm,
                        CompressionLevel |-> compressionlevel]]

DefaultLZOOptions ==
    [kind |-> "lzo", Algorithm |-> lzoDefaultAlgorithm,
     CompressionLevel |-> lzoDefaultCompressionLevel]

parseXZOptions(ler) ==
    LET dictionarysize == ler.w1
        lead == LeadingZeros32(dictionarysize)
        trail == TrailingZeros32(dictionarysize)
        filters == ler.w2
    IN  IF dictionarysize < maxDictionarySize \/ 32 - trail - lead > 2
        THEN Failed(ErrInvalidDictionarySize)
        ELSE IF filters > maxFilters THEN Failed(ErrInvalidFilters)
        ELSE [err |-> ErrNone,
              opts |-> [kind |-> "xz", DictionarySize |-> dictionarysize,
                        Filters |-> filters]]

DefaultXZOptions == [kind |-> "xz", DictionarySize |-> maxDictionarySize, Filters |-> 0]

parseLZ4Options(ler) ==
    IF ler.w1 # 1 THEN Failed(ErrInvalidCompressorVersion)
    ELSE IF ler.w2 > 1 THEN Failed(ErrInvalidCompressorFlags)
    ELSE [err |-> ErrNone, opts |-> [kind |-> "lz4", Version |-> 1, Flags |-> ler.w2]]

parseZStdOptions(ler) ==
    IF ler.w1 = 0 \/ ler.w1 > maxZStdCompressionLevel
    THEN Failed(ErrInvalidCompressionLevel)
    ELSE [err |-> ErrNone, opts |-> [kind |-> "zstd", CompressionLevel |-> ler.w1]]

DefaultZStdOptions == [kind |-> "zstd", CompressionLevel |-> BestCompression]

parseOptions(c, hasOptionsFlag, ler) ==
    CASE c = CompressorGZIP ->
            IF hasOptionsFlag THEN parseGZipOptions(ler)
            ELSE [err |-> ErrNone, opts |-> DefaultGzipOptions]
      [] c = CompressorLZMA -> Failed(ErrNoCompressorOptions)
      [] c = CompressorLZO ->
            IF hasOptionsFlag THEN parseLZOOptions(ler)
            ELSE [err |-> ErrNone, opts |-> DefaultLZOOptions]
      [] c = CompressorXZ ->
            IF hasOptionsFlag THEN parseXZOptions(ler)
            ELSE [err |-> ErrNone, opts |-> DefaultXZOptions]
      [] c = CompressorLZ4 -> parseLZ4Options(ler)
      [] c = CompressorZSTD ->
            IF hasOptionsFlag THEN parseZStdOptions(ler)
            ELSE [err |-> ErrNone, opts |-> DefaultZStdOptions]
      [] OTHER -> Failed(ErrInvalidCompressor)

\* 1 << n in 32 bits
ShiftLeft32(n) == IF n >= 32 THEN 0 ELSE 2 ^ n

readSuperBlockDetails(h) ==
    IF ShiftLeft32(h.log) # h.blockSize THEN ErrInvalidBlockSize
    ELSE IF h.major # versionMajor \/ h.minor # versionMinor THEN ErrInvalidVersion
    ELSE ErrNone

readFrom(h) ==
    LET detailed(err) ==
            IF err # ErrNone THEN Failed(err)
            ELSE parseOptions(h.compressor, (h.flags \div flagCompressionOptions) % 2 # 0,
                              h.ler)
    IN  IF h.magic # magic THEN Failed(ErrInvalidMagicNumber)
        ELSE detailed(readSuperBlockDetails(h))

\* the headers the images start with
Header(magicNumber, blockSizes, major, minor, c, flags, w1, w2) ==
    [magic |-> magicNumber, blockSize |-> blockSizes[1], log |-> blockSizes[2],
     major |-> major, minor |-> minor, compressor |-> c, flags |-> flags,
     ler |-> [w1 |-> w1, w2 |-> w2]]

\* block sizes with the exponent stored next to them
BlockSizes ==
    { <<0, 0>>, <<0, 32>>, <<0, 40>>, <<1, 0>>, <<2048, 11>>, <<4096, 12>>, <<4096, 13>>,
      <<4097, 12>>, <<131072, 17>>, <<1048576, 20>>, <<2097152, 21>>, <<12288, 13>> }

OptionWords1 ==
    {0, 1, 2, 4, 5, 9, 10, 22, 23, 4096, 8191, 8192, 12288, 40960, 57344, 1048576}

OptionWords2 ==
    {0, 1, 2, 4, 7, 8, 9, 10, 15, 16, 63, 64}
        \cup {15 + 65536 * st : st \in {1, 21, 22, 31, 32}}

Headers ==
    { Header(magic, <<131072, 17>>, versionMajor, versionMinor, c, flags, w1, w2) :
        c \in 0..7, flags \in {0, flagCompressionOptions, 1, flagCompressionOptions + 1},
        w1 \in OptionWords1, w2 \in OptionWords2 }
    \cup
    { Header(m, bs, v[1], v[2], c, flags, 9, 15) :
        m \in {magic, magic + 1}, bs \in BlockSizes,
        v \in {<<4, 0>>, <<3, 0>>, <<4, 1>>, <<0, 4>>}, c \in 0..7,
        flags \in {0, flagCompressionOptions} }

VARIABLES img, pos, reader, closed, cache, ret, ra, dir, res, meta, sb, bc

vars == << img, pos, reader, closed, cache, ret, ra, dir, res, meta, sb, bc >>

\* the result of the last call that returned, with the length of its buffer
\* (of a ReadDir: its argument) and the offset it read at (of a ReadDir: the
\* number of entries the handle had read)
NoRet == [op |-> "none", L |-> 0, at |-> 0, data |-> <<>>, err |-> ErrNone, p |-> 0]

\* the resolver before its first call
NoRes ==
    [ pc |-> "idle", op |-> "none", arg |-> <<>>, resolveLast |-> FALSE,
      fullPath |-> <<>>, path |-> <<>>, cutAt |-> 0, redirectsRemaining |-> 0,
      curr |-> NoInfo, info |-> NoInfo, err |-> ErrNone, target |-> <<>> ]

\* no metadata stream: pc is "none", "open" for a stream that readMetadata
\* returned, "failed" when it returned an error and "crashed" when a read of
\* the stream ended the program; b is the blockReader, pointer the pointer the
\* stream was asked for, yielded the number of bytes its reads have returned
NoMeta ==
    [pc |-> "none", b |-> NoBlockReader, pointer |-> 0, yielded |-> 0]

\* no superblock was read: header is the header of the image, op the call
\* that read it, err and opts what readFrom returned and left in the
\* superblock, open whether the call returned the *Stats or the FS
NoSb ==
    [op |-> "none", header |-> Header(0, <<0, 0>>, 0, 0, 0, 0, 0, 0), err |-> ErrNone,
     opts |-> NoOptions, open |-> FALSE]

\* the goroutines that share the cache
Threads == 1..2

\* no getBlock call is running: thr[t] is the position of goroutine t in
\* getOrSetBlock ("idle" outside it, "decompress" after the first lookup
\* missed, "insert" before the second critical section) with the arguments of
\* its call and the bytes it inflated; out is the call that returned last and
\* whether it read its source; uses lists the cached keys from the least to
\* the most recently used (inserted or hit)
NoCall == [pc |-> "idle", ptr |-> 0, src |-> <<>>, data |-> <<>>]

NoOut == [t |-> 0, ptr |-> 0, data |-> <<>>, err |-> ErrNone, read |-> FALSE]

NoCalls == [thr |-> [t \in Threads |-> NoCall], out |-> NoOut, uses |-> <<>>]

\* a file of one of the images and a directory of the tree were opened
InitWith(images, dirs) ==
    /\ img \in images
    /\ pos = 0
    /\ reader = NoReader
    /\ closed = FALSE
    /\ cache = newBlockCache(CacheSize)
    /\ ret = NoRet
    /\ ra = "idle"
    /\ dir \in {newDir(ino) : ino \in dirs}
    /\ res = NoRes
    /\ meta = NoMeta
    /\ sb = NoSb
    /\ bc = NoCalls

Read(L) ==
    LET done(r) ==
            /\ pos' = r.h.pos
            /\ reader' = r.h.reader
            /\ cache' = r.cache
            /\ ret' = [NoRet EXCEPT !.op = "Read", !.L = L, !.at = pos,
                                    !.data = r.data, !.err = r.err]
    IN  /\ IF closed
           THEN /\ ret' = [NoRet EXCEPT !.op = "Read", !.L = L, !.at = pos,
                                        !.err = ErrClosed]
                /\ UNCHANGED << pos, reader, cache >>
           ELSE done(read(img, [pos |-> pos, reader |-> reader], cache, L, 0))
        /\ UNCHANGED << img, closed, ra, dir, res, meta, sb, bc >>

Seek(offset, whence) ==
    LET done(s) ==
            /\ pos' = s.h.pos
            /\ reader' = s.h.reader
            /\ ret' = [NoRet EXCEPT !.op = "Seek", !.err = s.err, !.p = s.p]
        to(base) ==
            /\ base <= img.fileSize + MaxPast
            /\ IF base < 0
               THEN /\ ret' = [NoRet EXCEPT !.op = "Seek", !.err = ErrInvalid, !.p = pos]
                    /\ UNCHANGED << pos, reader >>
               ELSE done(setPos(img, [pos |-> pos, reader |-> reader], base))
    IN  /\ IF closed
           THEN /\ ret' = [NoRet EXCEPT !.op = "Seek", !.err = ErrClosed]
                /\ UNCHANGED << pos, reader >>
           ELSE IF whence \notin {SeekStart, SeekCurrent, SeekEnd}
           THEN /\ ret' = [NoRet EXCEPT !.op = "Seek", !.err = ErrInvalid, !.p = pos]
                /\ UNCHANGED << pos, reader >>
           ELSE to(offset + (CASE whence = SeekStart -> 0
                               [] whence = SeekCurrent -> pos
                               [] OTHER -> img.fileSize))
        /\ UNCHANGED << img, closed, cache, ra, dir, res, meta, sb, bc >>

\* a Close that answers nil every time
CloseIdempotent ==
    /\ ret' = [NoRet EXCEPT !.op = "Close"]
    /\ closed' = TRUE
    /\ UNCHANGED << img, pos, reader, cache, ra, dir, res, meta, sb, bc >>

Close ==
    /\ IF closed
       THEN ret' = [NoRet EXCEPT !.op = "Close", !.err = ErrClosed]
       ELSE ret' = [NoRet EXCEPT !.op = "Close"]
    /\ closed' = TRUE
    /\ UNCHANGED << img, pos, reader, cache, ra, dir, res, meta, sb, bc >>

\* ReadAt after the copy of f.squashfs was taken, sqfsNil telling what it was;
\* this part runs without the lock of the handle
ReadAtBody(sqfsNil, L, offset) ==
    LET done(r) ==
            /\ cache' = r.cache
            /\ ret' = [NoRet EXCEPT !.op = "ReadAt", !.L = L, !.at = offset,
                                    !.data = r.data, !.err = r.err]
    IN  /\ IF sqfsNil
           THEN /\ ret' = [NoRet EXCEPT !.op = "ReadAt", !.L = L, !.at = offset,
                                        !.err = ErrClosed]
                /\ cache' = cache
           ELSE IF offset = img.fileSize
           THEN /\ ret' = [NoRet EXCEPT !.op = "ReadAt", !.L = L, !.at = offset,
                                        !.err = EOF]
                /\ cache' = cache
           ELSE done(read(img, [pos |-> offset, reader |-> NoReader], cache, L, 0))
        /\ UNCHANGED << img, pos, reader, closed, dir, res, meta, sb, bc >>

\* a ReadAt that no other call on the handle overlaps
ReadAt(L, offset) ==
    /\ ra = "idle"
    /\ ReadAtBody(closed, L, offset)
    /\ ra' = ra

\* a ReadAt that other calls overlap, first half: f.squashfs is copied under
\* the lock
ReadAtBegin ==
    /\ ra = "idle"
    /\ ra' = IF closed THEN "nil" ELSE "sqfs"
    /\ UNCHANGED << img, pos, reader, closed, cache, ret, dir, res, meta, sb, bc >>

\* and its second half
ReadAtEnd(L, offset) ==
    /\ ra # "idle"
    /\ ReadAtBody(ra = "nil", L, offset)
    /\ ra' = "idle"

(***************************************************************************)
(* The calls on a directory handle.                                         *)
(***************************************************************************)
ReadDir(n) ==
    LET done(r) ==
            /\ dir' = r.d
            /\ ret' = [NoRet EXCEPT !.op = "ReadDir", !.L = n, !.at = dir.read,
                                    !.data = r.entries, !.err = r.err]
        upTo(max) ==
            IF n >= 0 /\ (IF n <= 0 \/ n >= max THEN max ELSE n) = 0
            THEN /\ ret' = [NoRet EXCEPT !.op = "ReadDir", !.L = n, !.at = dir.read,
                                         !.err = EOF]
                 /\ dir' = dir
            ELSE done(readDir(dir, IF n <= 0 \/ n >= max THEN max ELSE n))
    IN  /\ IF dir.closed
           THEN /\ ret' = [NoRet EXCEPT !.op = "ReadDir", !.L = n, !.at = dir.read,
                                        !.err = ErrClosed]
                /\ dir' = dir
           ELSE upTo(dirStat(dir.ino).linkCount - dir.read - dirLinkCountOffset)
        /\ UNCHANGED << img, pos, reader, closed, cache, ra, res, meta, sb, bc >>

DirClose ==
    /\ IF dir.closed
       THEN ret' = [NoRet EXCEPT !.op = "DirClose", !.err = ErrClosed]
       ELSE ret' = [NoRet EXCEPT !.op = "DirClose"]
    /\ dir' = [dir EXCEPT !.closed = TRUE]
    /\ UNCHANGED << img, pos, reader, closed, cache, ra, res, meta, sb, bc >>

(***************************************************************************)
(* The calls on a metadata stream.                                          *)
(***************************************************************************)
ReadMetadata(pointer, table) ==
    LET done(o) ==
            /\ ret' = [NoRet EXCEPT !.op = "ReadMetadata", !.at = pointer, !.err = o.err]
            /\ cache' = o.cache
            /\ meta' = [pc |-> IF o.err = ErrNone THEN "open" ELSE "failed", b |-> o.b,
                        pointer |-> pointer, yielded |-> 0]
    IN  /\ done(readMetadata(img, cache, pointer, table))
        /\ UNCHANGED << img, pos, reader, closed, ra, dir, res, sb, bc >>

\* Read of the blockReader that readMetadata returned
MetadataRead(L) ==
    LET done(o) ==
            /\ ret' = [NoRet EXCEPT !.op = "MetadataRead", !.L = L, !.at = meta.yielded,
                                    !.data = o.data, !.err = o.err]
            /\ cache' = o.cache
            /\ meta' = [meta EXCEPT !.pc = IF o.err \in {ErrOverflow, ErrNilReader}
                                           THEN "crashed" ELSE "open",
                                    !.b = o.b, !.yielded = @ + Len(o.data)]
    IN  /\ meta.pc = "open"
        /\ done(blockRead(img, meta.b, cache, L, 0))
        /\ UNCHANGED << img, pos, reader, closed, ra, dir, res, sb, bc >>

(***************************************************************************)
(* The calls that read the superblock.                                      *)
(***************************************************************************)
readSuperblock(op) ==
    LET done(r) ==
            sb' = [sb EXCEPT !.op = op, !.err = r.err, !.opts = r.opts,
                             !.open = (r.err = ErrNone)]
    IN  /\ sb.op = "none"
        /\ done(readFrom(sb.header))
        /\ UNCHANGED << img, pos, reader, closed, cache, ret, ra, dir, res, meta, bc >>

ReadStats == readSuperblock("ReadStats")

OpenWithCacheSize == readSuperblock("Open")

\* the lookup of a component in the directory of the handle, as the resolver
\* makes it: ret.L is the number of entries the scan read, ret.p the inode of
\* the entry it returned
Lookup(name) ==
    LET done(g) ==
            ret' = [NoRet EXCEPT !.op = "Lookup", !.data = name, !.err = g.err,
                                 !.L = g.read, !.p = g.info.ino]
    IN  /\ ret.op = "none"
        /\ done(getDirEntry(name, dirStat(dir.ino).blockIndex, dirStat(dir.ino).blockOffset,
                            dirStat(dir.ino).fileSize))
        /\ UNCHANGED << img, pos, reader, closed, cache, ra, dir, res, meta, sb, bc >>

(***************************************************************************)
(* getBlock on the shared cache.  A call of goroutine t is up to three     *)
(* steps: the first critical section of getOrSetBlock, decompressBlock     *)
(* outside the lock, and the second critical section.                      *)
(***************************************************************************)
\* the keys of uses that are still cached after key ptr was used
Used(uses, ptr, c) ==
    SelectSeq(SelectSeq(uses, LAMBDA k : k # ptr) \o << ptr >>,
              LAMBDA k : k \in CachedKeys(c))

\* the call of goroutine t returns
Return(t, ptr, data, err, srcRead, c) ==
    /\ cache' = c
    /\ bc' = [bc EXCEPT !.thr[t] = NoCall,
                        !.out = [t |-> t, ptr |-> ptr, data |-> data, err |-> err,
                                 read |-> srcRead],
                        !.uses = IF err = ErrNone THEN Used(@, ptr, c)
                                 ELSE SelectSeq(@, LAMBDA k : k \in CachedKeys(c))]

GetBlock(t, ptr, src) ==
    LET first(e) ==
            IF e.hit THEN Return(t, ptr, e.data, ErrNone, FALSE, e.cache)
            ELSE /\ bc' = [bc EXCEPT !.thr[t] = [pc |-> "decompress", ptr |-> ptr,
                                                 src |-> src, data |-> <<>>]]
                 /\ UNCHANGED cache
    IN  /\ bc.thr[t].pc = "idle"
        /\ first(getExistingBlock(cache, ptr))
        /\ UNCHANGED << img, pos, reader, closed, ret, ra, dir, res, meta, sb >>

GetBlockDecompress(t) ==
    LET call == bc.thr[t]
        inflated(d) ==
            IF d.err # ErrNone THEN Return(t, call.ptr, <<>>, d.err, TRUE, cache)
            ELSE /\ bc' = [bc EXCEPT !.thr[t].pc = "insert", !.thr[t].data = d.data]
                 /\ UNCHANGED cache
    IN  /\ call.pc = "decompress"
        /\ inflated(decompressBlock(img, call.src, TRUE))
        /\ UNCHANGED << img, pos, reader, closed, ret, ra, dir, res, meta, sb >>

\* the second critical section without its lookup
GetBlockInsertUnchecked(t) ==
    LET call == bc.thr[t]
    IN  /\ call.pc = "insert"
        /\ Return(t, call.ptr, call.data, ErrNone, TRUE,
                  addData(clearSpace(cache, Len(call.data)), call.ptr, call.data))
        /\ UNCHANGED << img, pos, reader, closed, ret, ra, dir, res, meta, sb >>

GetBlockInsert(t) ==
    LET call == bc.thr[t]
        second(e) ==
            IF e.hit THEN Return(t, call.ptr, e.data, ErrNone, TRUE, e.cache)
            ELSE Return(t, call.ptr, call.data, ErrNone, TRUE,
                        addData(clearSpace(cache, Len(call.data)), call.ptr, call.data))
    IN  /\ call.pc = "insert"
        /\ second(getExistingBlock(cache, call.ptr))
        /\ UNCHANGED << img, pos, reader, closed, ret, ra, dir, res, meta, sb >>

(***************************************************************************)
(* The calls that resolve a path: Open, Stat, LStat and Readlink.           *)
(***************************************************************************)
ResolveLast(op) == op \in {"Open", "Stat"}

\* SquashFS.resolve up to the loop of resolver.resolve
Resolve(op, fpath) ==
    LET rooted(root) ==
            IF root.err # ErrNone
            THEN res' = [NoRes EXCEPT !.op = op, !.arg = fpath,
                                      !.resolveLast = ResolveLast(op), !.err = root.err]
            ELSE res' = [NoRes EXCEPT !.pc = "loop", !.op = op, !.arg = fpath,
                                      !.resolveLast = ResolveLast(op),
                                      !.fullPath = fpath, !.path = fpath,
                                      !.redirectsRemaining = maximumRedirects,
                                      !.curr = root.info]
    IN  /\ res.pc = "idle"
        /\ IF ~ValidPath(fpath)
           THEN res' = [NoRes EXCEPT !.op = op, !.arg = fpath,
                                     !.resolveLast = ResolveLast(op), !.err = ErrInvalid]
           ELSE rooted(getEntry(RootInode, <<>>))
        /\ UNCHANGED << img, pos, reader, closed, cache, ret, ra, dir, meta, sb, bc >>

\* the resolver after one pass of the loop, and after the return of the call
\* when the loop ends
resolvePass(rs) ==
    LET returned(r, out) ==
            [rs EXCEPT !.pc = "idle", !.fullPath = r.fullPath, !.path = r.path,
                       !.cutAt = r.cutAt, !.redirectsRemaining = r.redirectsRemaining,
                       !.curr = NoInfo, !.info = out.info, !.err = out.err,
                       !.target = out.target]
        looped(l) ==
            IF l.ret
            THEN Let(Returned(rs.op, l.curr, l.err), LAMBDA out : returned(l.r, out))
            ELSE [rs EXCEPT !.fullPath = l.r.fullPath, !.path = l.r.path,
                            !.cutAt = l.r.cutAt,
                            !.redirectsRemaining = l.r.redirectsRemaining,
                            !.curr = l.curr]
    IN  Let(resolveLoop([fullPath |-> rs.fullPath, path |-> rs.path,
                         cutAt |-> rs.cutAt,
                         redirectsRemaining |-> rs.redirectsRemaining],
                        rs.curr, [ino |-> RootInode, name |-> <<>>], rs.resolveLast),
            looped)

ResolveStep ==
    /\ res.pc = "loop"
    /\ res' = resolvePass(res)
    /\ UNCHANGED << img, pos, reader, closed, cache, ret, ra, dir, meta, sb, bc >>

SeekOrigin(whence) ==
    CASE whence = SeekCurrent -> pos
      [] whence = SeekEnd -> img.fileSize
      [] OTHER -> 0

\* the calls on an open file, one after the other
Next ==
    \/ \E L \in 0..MaxBuf : Read(L)
    \/ \E whence \in 0..3 : \E base \in (0 - 1)..(img.fileSize + MaxPast) :
          Seek(base - SeekOrigin(whence), whence)
    \/ \E L \in 0..MaxBuf : \E offset \in 0..(img.fileSize + 1) : ReadAt(L, offset)

Init == InitWith(DenseImages \cup SparseImages, {RootInode})

Spec == Init /\ [][Next]_vars

InitDense == InitWith(DenseImages, {RootInode})

SpecDense == InitDense /\ [][Next]_vars

\* files with unused bits in their block list and files cut short
InitBlocks == InitWith(HighImages \cup ShortImages, {RootInode})

SpecBlocks == InitBlocks /\ [][Next]_vars

\* the calls on a file handle and on a directory handle, a ReadAt running
\* while other calls are made
NextHandles ==
    \/ \E L \in 0..MaxBuf : Read(L)
    \/ \E whence \in 0..3 : \E base \in (0 - 1)..(img.fileSize + MaxPast) :
          Seek(base - SeekOrigin(whence), whence)
    \/ ReadAtBegin
    \/ \E L \in 0..MaxBuf : \E offset \in 0..(img.fileSize + 1) : ReadAtEnd(L, offset)
    \/ Close
    \/ \E n \in (0 - 1)..MaxEntries : ReadDir(n)
    \/ DirClose

InitHandles == InitWith({MkImage(DenseKinds(1), FALSE, BlockSize, FALSE, FALSE)}, {2})

SpecHandles == InitHandles /\ [][NextHandles]_vars

\* the calls that list a directory: the root, two directories of one group,
\* an empty one and one of two groups
NextReadDir ==
    \/ \E n \in (0 - 1)..MaxEntries : ReadDir(n)
    \/ DirClose

InitReadDir ==
    InitWith({MkImage(<<>>, FALSE, 0, FALSE, FALSE)}, {RootInode, 2, 3, 9, 13, 15})

SpecReadDir == InitReadDir /\ [][NextReadDir]_vars

\* the components looked up: the names of the tree and names it does not hold
Components ==
    { Str(p) : p \in { "dirB", "dirC", "dirD", "dirE", "dirF", "dirX", "link", "lone", "loop",
                       "fileB", "fileC", "fileD", "fileE", "A", "dir", "fileA", "fileBB",
                       "fileCA", "fileF", "fileX", "r" } }

NextLookup == \E name \in Components : Lookup(name)

InitLookup == InitWith({MkImage(<<>>, FALSE, 0, FALSE, FALSE)}, {RootInode, 2, 3, 9, 13})

SpecLookup == InitLookup /\ [][NextLookup]_vars

\* the byte offsets the pointers of the calls carry
MetaOffsets == {0, 1, 2, blockSize, blockSize + 1, metadataPointerMask}

\* the calls on the metadata streams of a table: a stream is asked for at a
\* metablock of the table, or at the bytes after the last one
NextMeta ==
    \/ \E k \in DOMAIN img.starts : \E offset \in MetaOffsets :
          ReadMetadata(img.starts[k] * (2 ^ metadataPointerShift) + offset, img.table)
    \/ \E L \in 0..MaxBuf : MetadataRead(L)

InitMeta == InitWith(MetaImages, {RootInode})

SpecMeta == InitMeta /\ [][NextMeta]_vars

\* the calls that read the superblock of an image
NextSuper == ReadStats \/ OpenWithCacheSize

InitSuper ==
    /\ img = MkImage(<<>>, FALSE, 0, FALSE, FALSE)
    /\ pos = 0
    /\ reader = NoReader
    /\ closed = FALSE
    /\ cache = newBlockCache(CacheSize)
    /\ ret = NoRet
    /\ ra = "idle"
    /\ dir = newDir(RootInode)
    /\ res = NoRes
    /\ meta = NoMeta
    /\ sb \in { [NoSb EXCEPT !.header = h] : h \in Headers }
    /\ bc = NoCalls

SpecSuper == InitSuper /\ [][NextSuper]_vars

\* the budget of the cache the getBlock calls share
SmallCache == 3

\* the keys of the calls: SmallCache + 1 blocks of one byte, a block of two
\* bytes and a block of one byte more than the budget
CacheKeys == 0..(SmallCache + 2)

KeyLen(k) == IF k <= SmallCache THEN 1 ELSE IF k = SmallCache + 1 THEN 2 ELSE SmallCache + 1

\* the bytes of the block with key k in version v of the image
KeyBytes(k, v) == [i \in 1..KeyLen(k) |-> 10 * k + v]

\* the compressed block with key k in version v: a stream that inflates to
\* KeyBytes(k, v)
SourceOf(k, v) == << 0 - (MaxBlocks + 3 + 2 * k + v) >>

\* a source that cannot be read
BadSource == <<>>

CacheImage ==
    [ payloads |-> [j \in { 0 - SourceOf(k, v)[1] : k \in CacheKeys, v \in 0..1 } |->
                        LET n == j - (MaxBlocks + 3) IN KeyBytes(n \div 2, n % 2)],
      fragPayload |-> <<>>, metaPayload |-> <<>>, disk |-> <<>>, fileSize |-> 0 ]

InitCacheWith(length) ==
    /\ img = CacheImage
    /\ pos = 0
    /\ reader = NoReader
    /\ closed = FALSE
    /\ cache = newBlockCache(length)
    /\ ret = NoRet
    /\ ra = "idle"
    /\ dir = newDir(RootInode)
    /\ res = NoRes
    /\ meta = NoMeta
    /\ sb = NoSb
    /\ bc = NoCalls

\* one goroutine calls getBlock with any source
NextCache ==
    \/ \E ptr \in CacheKeys : \E src \in {SourceOf(ptr, 0), SourceOf(ptr, 1), BadSource} :
           GetBlock(1, ptr, src)
    \/ GetBlockDecompress(1)
    \/ GetBlockInsert(1)

InitCache == InitCacheWith(SmallCache)

SpecCache == InitCache /\ [][NextCache]_vars

\* the keys the goroutines share
SharedKeys == {0, 1, 2, SmallCache + 1}

\* the goroutines call getBlock with the block of the image at the offset
NextShared ==
    \/ \E t \in Threads : \E ptr \in SharedKeys : GetBlock(t, ptr, SourceOf(ptr, 0))
    \/ \E t \in Threads : GetBlockDecompress(t)
    \/ \E t \in Threads : GetBlockInsert(t)

InitShared == InitCacheWith(SmallCache - 1)

SpecShared == InitShared /\ [][NextShared]_vars

\* the paths the calls are made with
Paths ==
    { Str(p) : p \in { "", ".", "/dirC", "dirC/", "dirC/../dirD", "dirC", "dirC/fileB",
                       "dirC/fileC", "dirC/fileX", "dirC/fileB/fileB", "dirD/fileD",
                       "dirD/fileE", "dirE", "dirE/fileB", "dirE/fileC", "dirF",
                       "dirF/fileB", "dirF/fileC", "dirX", "dirX/fileB", "link",
                       "link/fileC", "lone", "loop", "loop/fileB", "fileB" } }

NextResolve ==
    \/ \E op \in {"Open", "Stat", "LStat", "Readlink"} : \E fpath \in Paths :
          Resolve(op, fpath)
    \/ ResolveStep

InitResolve == InitWith({MkImage(<<>>, FALSE, 0, FALSE, FALSE)}, {RootInode})

SpecResolve == InitResolve /\ [][NextResolve]_vars

\* a call that has started goes on
FairSpecResolve == SpecResolve /\ WF_vars(ResolveStep)

(***************************************************************************)
(* Reading a file through its handle.                                       *)
(***************************************************************************)
\* n zero bytes
Zeros(n) == [i \in 1..n |-> 0]

\* C1: a Read of L bytes at position pos of an open file returns the
\* min(L, fileSize - pos) bytes of the file that start at pos and moves the
\* position past them; a Read at the end of the file returns no bytes and
\* io.EOF
C1_ReadReturnsFileBytes ==
    (ret.op = "Read" /\ ret.err # ErrClosed /\ ret.at <= img.fileSize) =>
        /\ ret.data = Slice(FileBytes(img), ret.at,
                            ret.at + Min(ret.L, img.fileSize - ret.at))
        /\ pos = ret.at + Min(ret.L, img.fileSize - ret.at)
        /\ (ret.at = img.fileSize => ret.err = EOF)

\* C2: whatever Read and Seek calls came before, a Seek returns the absolute
\* position it names, and the Read of b - a bytes that follows a Seek to a
\* returns the bytes a..b of the file
C2_SeekThenRead ==
    [][/\ \A whence \in {SeekStart, SeekCurrent, SeekEnd} :
            \A base \in 0..img.fileSize :
                (Seek(base - SeekOrigin(whence), whence) /\ ~closed) =>
                    ret'.err = ErrNone /\ ret'.p = base /\ pos' = base
       /\ (ret.op = "Seek" /\ ret.err = ErrNone /\ ret'.op = "Read"
                /\ ret'.err # ErrClosed /\ ret'.at + ret'.L <= img.fileSize) =>
                ret'.data = Slice(FileBytes(img), ret'.at, ret'.at + ret'.L)]_vars

\* what a sequential read of the whole file returns, the cache being c
SequentialRead(im, c) == read(im, [pos |-> 0, reader |-> NoReader], c, im.fileSize, 0)

NullCacheRead(im, offset, L) ==
    read(im, [pos |-> offset, reader |-> NoReader], newBlockCache(0), L, 0)

\* C4: a read through the block cache returns the bytes and the error that
\* the same read returns with an empty cache of no capacity, also on files
\* with zero-size entries in the block list
C4_CacheIsTransparent ==
    (ret.op = "ReadAt" /\ ret.err # ErrClosed /\ ret.at # img.fileSize) =>
        /\ ret.data = NullCacheRead(img, ret.at, ret.L).data
        /\ ret.err = NullCacheRead(img, ret.at, ret.L).err

\* C5: a ReadAt leaves the position and the reader of the handle alone and
\* returns the bytes of the file at its offset
C5_ReadAtIsIndependent ==
    [][ret'.op = "ReadAt" =>
        /\ pos' = pos /\ reader' = reader
        /\ (ret'.err # ErrClosed /\ ret'.at + ret'.L <= img.fileSize) =>
              ret'.data = Slice(FileBytes(img), ret'.at, ret'.at + ret'.L)]_vars

\* C6: the Close of an open handle answers nil and closes it; on a closed
\* file handle Read, Seek and Close answer closed, and so does a ReadAt that
\* starts there; on a closed directory handle ReadDir and Close answer closed;
\* a closed handle stays closed
C6_ClosedStaysClosed ==
    [][/\ (closed => closed') /\ (dir.closed => dir'.closed)
       /\ (~closed /\ closed') => (ret'.op = "Close" /\ ret'.err = ErrNone)
       /\ (~dir.closed /\ dir'.closed) => (ret'.op = "DirClose" /\ ret'.err = ErrNone)
       /\ (closed /\ \/ \E L \in 0..MaxBuf : Read(L)
                     \/ \E whence \in 0..3 : \E offset \in (0 - 1)..MaxBuf :
                           Seek(offset, whence)
                     \/ Close) => (ret'.err = ErrClosed /\ closed')
       /\ (closed /\ ReadAtBegin) => ra' = "nil"
       /\ (ra = "nil" /\ \E L \in 0..MaxBuf : \E offset \in 0..(img.fileSize + 1) :
                            ReadAtEnd(L, offset)) =>
             (ret'.op = "ReadAt" /\ ret'.err = ErrClosed)
       /\ (dir.closed /\ \/ \E n \in (0 - 1)..MaxEntries : ReadDir(n)
                         \/ DirClose) => (ret'.err = ErrClosed /\ dir'.closed)
      ]_vars

\* a ReadAt that started on a closed file handle has answered closed, the
\* directory handle being closed too
C6_Witness ==
    /\ closed /\ dir.closed /\ ra = "idle"
    /\ ret.op = "ReadAt" /\ ret.err = ErrClosed

\* C7: reading a block whose entry in the size table is zero yields
\* min(blockSize, bytes left in the file) zero bytes
C7_SparseBlockReadsZeros ==
    \A k \in 0..(Len(img.blockSizes) - 1) :
        (img.blockSizes[k + 1] = 0 /\ ret.op = "ReadAt" /\ ret.err # ErrClosed
            /\ ret.at = k * BlockSize
            /\ ret.L = Min(BlockSize, img.fileSize - k * BlockSize)) =>
            ret.data = Zeros(ret.L) /\ ret.err = ErrNone

\* C18: the reader that a Seek keeps was built for the block that holds the
\* new position and stands at the new position in it, so that what is left
\* in it are the bytes of the file from pos to the end of the block; and in
\* every state that Read and Seek reach, the next byte that the handle yields
\* is the byte of the file at pos
C18_ReaderStandsAtPos ==
    (~closed /\ pos < img.fileSize) =>
        /\ (ret.op = "Seek" /\ ret.err = ErrNone /\ reader.kind # "nil") =>
               ReaderRead(reader, BlockSize).data
                   = Slice(FileBytes(img), pos,
                           Min((pos \div BlockSize + 1) * BlockSize, img.fileSize))
        /\ LET next == read(img, [pos |-> pos, reader |-> reader], cache, 1, 0)
           IN  next.err = ErrNone /\ next.data = << FileBytes(img)[pos + 1] >>

\* what getOrSetBlock does with the bytes of a block that was not cached
MissInsert(c, ptr, data) == addData(clearSpace(c, Len(data)), ptr, data)

\* C20: a miss for a block of n bytes, n at most the budget of the cache,
\* evicts the least recently used blocks one after the other until n bytes
\* are free, and no more, and then puts the block in as the most recently
\* used: after the miss the block is in the cache, whatever was cached before
C20_MissInsertsBlock ==
    \A n \in 0..CacheSize :
        LET data == [i \in 1..n |-> 9]
            old == CacheEntries(cache)
            new == CacheEntries(MissInsert(cache, 0 - 1, data))
            free(k) == cache.bytesRemaining + Len(Concat([i \in 1..k |-> old[i].data]))
            enough == { k \in 0..Len(old) : free(k) >= n }
        IN  /\ enough # {}
            /\ \A k \in enough :
                   (\A j \in enough : k <= j) =>
                       new = SubSeq(old, k + 1, Len(old))
                                \o << [ptr |-> 0 - 1, data |-> data] >>

(***************************************************************************)
(* The blocks of a file.                                                   *)
(***************************************************************************)
\* the low 24 bits of a block size entry and its bit 24
Low24(size) == size % 16777216
Bit24(size) == (size \div 16777216) % 2

RECURSIVE ExtentStart(_, _)
ExtentStart(im, k) ==
    IF k = 0 THEN im.blocksStart ELSE ExtentStart(im, k - 1) + Low24(im.blockSizes[k])

\* the bytes of data block k (from 0) by the format: the extent of the
\* image it occupies, inflated when bit 24 of its entry is clear
BlockBytes(im, k) ==
    LET extent == Section(im, ExtentStart(im, k), Low24(im.blockSizes[k + 1]))
    IN  decompressBlock(im, extent, Bit24(im.blockSizes[k + 1]) = 0)

\* the bytes a reader yields when it is read to its end from where it stands
Drain(r) == ReaderRead(r, BlockSize + Len(FragPrefix) + 1).data

\* C27: of a file in any state of the cache, the reader of block k below
\* len(blockSizes), when the cache holds nothing under the offset of the block,
\* yields the extent at blocksStart + the sum of the low 24 bits of the
\* entries before k, of the length in the low 24 bits of entry k, inflated
\* exactly when bit 24 of the entry is clear, and fails as that inflation
\* fails; the reader of a block index from len(blockSizes) on yields the
\* fileSize mod blockSize bytes of the fragment block from blockOffset on
\* when the file has a fragment, and is io.EOF when it has none
C27_BlocksAndFragment ==
    \A k \in 0..(MaxBlocks + 1) : \A c \in {cache, newBlockCache(CacheSize)} :
        LET g == getReader(img, c, k)
        IN  /\ (k < Len(img.blockSizes) /\ ExtentStart(img, k) \notin CachedKeys(c)) =>
                   /\ g.err = BlockBytes(img, k).err
                   /\ g.err = ErrNone =>
                          /\ g.reader.off = 0
                          /\ Drain(g.reader) = BlockBytes(img, k).data
            /\ (k >= Len(img.blockSizes) /\ img.fragIndex # fieldDisabled) =>
                   /\ g.err = ErrNone
                   /\ Drain(g.reader)
                          = Slice(img.fragPayload, img.blockOffset,
                                  Min(img.blockOffset + (img.fileSize % BlockSize),
                                      Len(img.fragPayload)))
            /\ (k >= Len(img.blockSizes) /\ img.fragIndex = fieldDisabled) =>
                   g.err = EOF

\* a ReadAt returned a whole block whose entry has unused bits set and bit 24
\* clear
C27_Witness ==
    /\ ret.op = "ReadAt" /\ ret.err = ErrNone /\ ret.at = 0
    /\ Len(img.blockSizes) >= 1 /\ img.blockSizes[1] > 2 * compressionMask
    /\ Bit24(img.blockSizes[1]) = 0
    /\ ret.data = BlockBytes(img, 0).data /\ Len(ret.data) = BlockSize

\* C29: every Read and ReadAt returns, with bytes or with an error, on every
\* image, also one whose blocks or fragment hold fewer bytes than fileSize:
\* no call runs out of stack, and a level of read that opened the block at
\* pos never ends at the same pos without a reader and with more to read
C29_ReadTerminates ==
    /\ ret.op \in {"Read", "ReadAt"} => ret.err # ErrOverflow
    /\ \A L \in 1..MaxBuf :
           LET h == [pos |-> pos, reader |-> NoReader]
               lv == readLevel(img, h, cache, L)
           IN  ~(lv.more /\ lv.h = h)

\* C30: the next Read of an open handle returns the bytes and the error that
\* the next Read of a second handle on the same file returns, which was
\* opened and moved to the same pos by one Seek and so holds no reader, the
\* two sharing the cache of the image
C30_ReadDependsOnPosOnly ==
    ~closed =>
        \A L \in 0..MaxBuf :
            LET mine == read(img, [pos |-> pos, reader |-> reader], cache, L, 0)
                other == read(img, [pos |-> pos, reader |-> NoReader], cache, L, 0)
            IN  mine.data = other.data /\ mine.err = other.err

(***************************************************************************)
(* The cache under getBlock calls.                                         *)
(***************************************************************************)
\* the keys of a sequence of cached blocks, in its order
KeysOf(entries) == [i \in 1..Len(entries) |-> entries[i].ptr]

\* the entries with the entry of key ptr moved to the most recently used end
Promoted(entries, ptr) ==
    SelectSeq(entries, LAMBDA e : e.ptr # ptr) \o SelectSeq(entries, LAMBDA e : e.ptr = ptr)

\* the place of key k in the order of last use
UseRank(uses, k) == CHOOSE i \in 1..Len(uses) : uses[i] = k

\* C21: a getBlock for a cached key returns the cached bytes without reading
\* its source and makes the entry the most recently used one, and only a
\* call for a key that is not cached goes on to decompress its source; the
\* list is in the order of last use (insert or hit) and every entry a step
\* evicts was used before every entry the step keeps; an insert of a new
\* key into a full cache evicts the least recently used key, a get of
\* that key is then a miss, and a miss returns what the source passed to
\* the call inflates to
C21_HitPromotesEvictOldest ==
    [][ LET old == CacheEntries(cache)
            new == CacheEntries(cache')
            call == bc.thr[1]
            out == bc'.out
        IN  /\ KeysOf(old) = bc.uses
            /\ (call.pc = "idle" /\ bc'.thr[1].pc = "idle") =>
                   /\ out.ptr \in CachedKeys(cache)
                   /\ \E i \in 1..Len(old) : old[i].ptr = out.ptr /\ old[i].data = out.data
                   /\ out.err = ErrNone /\ ~out.read
                   /\ new = Promoted(old, out.ptr)
                   /\ new[Len(new)].ptr = out.ptr
            /\ (call.pc = "idle" /\ bc'.thr[1].pc # "idle") =>
                   /\ bc'.thr[1].pc = "decompress"
                   /\ bc'.thr[1].ptr \notin CachedKeys(cache)
                   /\ new = old
            /\ \A e \in CachedKeys(cache) \ CachedKeys(cache') :
                   /\ call.pc = "insert"
                   /\ \A k \in CachedKeys(cache) \cap CachedKeys(cache') :
                          UseRank(bc.uses, e) < UseRank(bc.uses, k)
            /\ (call.pc = "insert" /\ call.ptr \notin CachedKeys(cache)) =>
                   /\ out.read /\ out.err = ErrNone
                   /\ out.data = decompressBlock(img, call.src, TRUE).data
                   /\ (cache.bytesRemaining = 0 /\ Len(old) > 0) =>
                          /\ old[1].ptr \notin CachedKeys(cache')
                          /\ ~getExistingBlock(cache', old[1].ptr).hit
                          /\ (Len(call.data) <= Len(old[1].data)) =>
                                 new = Tail(old) \o << [ptr |-> call.ptr, data |-> call.data] >>
      ]_vars

\* keys 0, 1 and 2 filled the cache, key 3 put key 0 out, and the get of key
\* 0 that followed inflated the other version of its block
C21_Witness ==
    /\ bc.out = [t |-> 1, ptr |-> 0, data |-> KeyBytes(0, 1), err |-> ErrNone, read |-> TRUE]
    /\ CacheEntries(cache) = << [ptr |-> 2, data |-> KeyBytes(2, 0)],
                                [ptr |-> 3, data |-> KeyBytes(3, 0)],
                                [ptr |-> 0, data |-> KeyBytes(0, 1)] >>
    /\ cache.bytesRemaining = 0

\* the number of bytes the cached blocks hold
CachedBytes(c) == Len(Concat([i \in 1..Len(CacheEntries(c)) |-> CacheEntries(c)[i].data]))

\* C22: the lengths of the cached blocks and the remaining budget add up to
\* the budget the cache was made with, and the remaining budget is not
\* negative; a block of more bytes than the budget is never in the cache, and
\* the call that asked for it returned its bytes
C22_BudgetIsConserved ==
    /\ CachedBytes(cache) + cache.bytesRemaining = SmallCache
    /\ cache.bytesRemaining >= 0
    /\ \A i \in 1..Len(CacheEntries(cache)) : Len(CacheEntries(cache)[i].data) <= SmallCache
    /\ \A k \in CacheKeys :
           KeyLen(k) > SmallCache =>
               /\ k \notin CachedKeys(cache)
               /\ (bc.out.ptr = k /\ bc.out.err = ErrNone) =>
                      bc.out.read /\ bc.out.data \in {KeyBytes(k, 0), KeyBytes(k, 1)}

\* the block of more bytes than the budget was returned by a call that found
\* the cache full
C22_Witness ==
    /\ bc.out.ptr = SmallCache + 2 /\ bc.out.err = ErrNone
    /\ Len(bc.out.data) = SmallCache + 1
    /\ Len(CacheEntries(cache)) = SmallCache - 1
    /\ cache.bytesRemaining = 1

\* C23: whatever the interleaving of the goroutines' getBlock calls, no two
\* entries of the cache have the same key; the list from head ends at nil
\* without visiting a node twice, every node that holds a block is on it and
\* tail is its last node; every entry holds the bytes of the block of its
\* key, and every call that returned without error returned those bytes
C23_SharedCacheStaysConsistent ==
    LET list == CacheList(cache)
        entries == CacheEntries(cache)
    IN  /\ Cardinality(CachedKeys(cache)) = Len(entries)
        /\ Len(list) <= CacheSize
        /\ Cardinality({ list[i] : i \in 1..Len(list) }) = Len(list)
        /\ \A x \in Nodes :
               cache.nodes[x].data # <<>> => \E i \in 1..Len(list) : list[i] = x
        /\ Len(list) > 0 =>
               /\ cache.tail = list[Len(list)]
               /\ cache.nodes[cache.tail].next = NIL
        /\ Len(list) = 0 => cache.head = NIL
        /\ \A i \in 1..Len(entries) : entries[i].data = KeyBytes(entries[i].ptr, 0)
        /\ (bc.out.t \in Threads /\ bc.out.err = ErrNone) =>
               bc.out.data = KeyBytes(bc.out.ptr, 0)
        /\ bc.out.t \in Threads => bc.out.err = ErrNone

\* both goroutines missed on key 0 and inflated its block; the second has
\* inserted it and returned, the first is before its second lookup
C23_Witness ==
    /\ bc.thr[1].pc = "insert" /\ bc.thr[1].ptr = 0
    /\ bc.out.t = 2 /\ bc.out.ptr = 0 /\ bc.out.read
    /\ 0 \in CachedKeys(cache)

(***************************************************************************)
(* Listing a directory.                                                     *)
(***************************************************************************)
\* the names the listing of directory ino stores, in the order of the listing
DirNames(ino) == [i \in 1..Len(Inodes[ino].entries) |-> Inodes[ino].entries[i].name]

\* C11: ReadDir(n) with n <= 0 returns without error the entries of the
\* listing that the handle had not returned, all groups of it, each once and
\* in the order of the listing, names strictly increasing
C11_ReadDirReturnsTheRest ==
    (ret.op = "ReadDir" /\ ret.L <= 0 /\ ret.err # ErrClosed) =>
        /\ ret.err = ErrNone
        /\ ret.data = SubSeq(DirNames(dir.ino), ret.at + 1, Len(DirNames(dir.ino)))
        /\ \A i \in 1..Len(ret.data) : \A j \in (i + 1)..Len(ret.data) :
               StrLess(ret.data[i], ret.data[j])

\* C12: ReadDir(n) with n > 0 returns the next run of at most n entries of the
\* listing, starting after the entries the handle had returned; a handle that
\* had returned them all gets no entries and EOF, and a run that reaches the
\* end of the listing with fewer than n entries comes together with EOF
C12_ReadDirReturnsRuns ==
    LET names == DirNames(dir.ino)
        rest == Len(names) - ret.at
    IN  (ret.op = "ReadDir" /\ ret.L > 0 /\ ret.err # ErrClosed) =>
            /\ ret.data = SubSeq(names, ret.at + 1, ret.at + Min(ret.L, rest))
            /\ dir.read = ret.at + Len(ret.data)
            /\ ret.err = IF rest < ret.L THEN EOF ELSE ErrNone

\* the group that holds entry i of the listing of a directory inode
GroupOf(inode, i) ==
    CHOOSE g \in 1..Len(inode.groups) :
        LET before == Len(Concat(SubSeq(inode.groups, 1, g - 1)))
        IN  before < i /\ i <= before + Len(inode.groups[g])

\* whether entry i is the first entry of its group
FirstOfGroup(inode, i) ==
    i = 1 + Len(Concat(SubSeq(inode.groups, 1, GroupOf(inode, i) - 1)))

\* the entry that the handle reads next
NextDirEntry(d) ==
    readDirEntry([count |-> d.count, start |-> d.start, read |-> d.read],
                 newLer(d.off, d.left))

\* C24: an open handle that has read fewer entries than its listing holds
\* reads entry read + 1 of the listing next: it consumes the three words of
\* a group header exactly when that entry is the first of its group, the
\* entry has the name and the inode offset the listing stores, and start is
\* the start block of the entry's own group; a lookup by name finds every
\* entry of every group
C24_EntriesUnderTheirHeader ==
    LET inode == Inodes[dir.ino]
        i == dir.read + 1
        r == NextDirEntry(dir)
    IN  /\ (~dir.closed /\ i <= Len(inode.entries)) =>
               /\ r.ler.err = ErrNone
               /\ r.entry.name = inode.entries[i].name
               /\ r.entry.ptr % (2 ^ metadataPointerShift) = inode.entries[i].ino
               /\ r.d.start = inode.starts[GroupOf(inode, i)]
               /\ r.ler.off - dir.off
                      = Len(DirEntryBytes(inode.entries[i]))
                        + (IF FirstOfGroup(inode, i) THEN 3 * 4 ELSE 0)
        /\ \A j \in 1..Len(inode.entries) :
               inode.starts[GroupOf(inode, j)] = 0 =>
                   getDirEntry(inode.entries[j].name, dirStat(dir.ino).blockIndex,
                               dirStat(dir.ino).blockOffset, dirStat(dir.ino).fileSize)
                       = [err |-> ErrNone,
                          info |-> [ino |-> inode.entries[j].ino,
                                    name |-> inode.entries[j].name]]

\* C25: the pointer of the entry that an open handle reads next is the
\* start block of the group header the handle is under, whatever 32-bit value
\* it has, times 2^16, plus the inode offset the entry stores
C25_ChildPointerKeepsStart ==
    LET inode == Inodes[dir.ino]
        i == dir.read + 1
        r == NextDirEntry(dir)
    IN  (~dir.closed /\ i <= Len(inode.entries) /\ r.ler.err = ErrNone) =>
            /\ r.entry.ptr \div (2 ^ metadataPointerShift) = r.d.start
            /\ r.entry.name = inode.entries[i].name =>
                   r.entry.ptr % (2 ^ metadataPointerShift) = inode.entries[i].ino

\* C26: a lookup in a directory, its listing being sorted, returns the entry
\* of the listing that has the name, in whichever group it is, and not-exist
\* when the listing has none; the scan reads the entries up to the one it
\* returns or, without one, up to the first entry whose name is greater than
\* the component, or makes one more read when the bytes of the listing are
\* used up
C26_LookupFindsTheName ==
    LET entries == Inodes[dir.ino].entries
        named == { i \in 1..Len(entries) : entries[i].name = ret.data }
        greater == { i \in 1..Len(entries) : StrLess(ret.data, entries[i].name) }
        first(S) == CHOOSE i \in S : \A j \in S : i <= j
    IN  ret.op = "Lookup" =>
            /\ \A i \in 1..Len(entries) : \A j \in (i + 1)..Len(entries) :
                   StrLess(entries[i].name, entries[j].name)
            /\ named # {} =>
                   /\ ret.err = ErrNone
                   /\ ret.p = entries[first(named)].ino
                   /\ ret.L = first(named)
            /\ named = {} =>
                   /\ ret.err = ErrNotExist
                   /\ ret.L = IF greater # {} THEN first(greater) ELSE Len(entries) + 1

(***************************************************************************)
(* Metadata streams.                                                        *)
(***************************************************************************)
\* the size that the header at the metablock a pointer addresses carries
PointedSize(im, pointer) ==
    ReadHeader(im, im.table + pointer \div (2 ^ metadataPointerShift)).v
        % (metadataBlockSizeMask + 1)

\* C14: readMetadata with a pointer whose byte offset, its low 16 bits, is
\* greater than 8192 returns the invalid pointer error and has read no
\* header; a call that reads a header whose size is greater than 8192 returns
\* the invalid block header error; neither ends the program
C14_InvalidPointerAndHeader ==
    /\ (ret.op = "ReadMetadata" /\ ret.at % (metadataPointerMask + 1) > blockSize) =>
            (ret.err = ErrInvalidPointer /\ meta.pc = "failed" /\ meta.b.trail = <<>>)
    /\ (ret.op = "ReadMetadata" /\ ret.at % (metadataPointerMask + 1) <= blockSize
            /\ PointedSize(img, ret.at) > blockSize) =>
            (ret.err = ErrInvalidBlockHeader /\ meta.pc = "failed")
    /\ (ret.op = "MetadataRead" /\ meta.b.trail # <<>>
            /\ meta.b.trail[Len(meta.b.trail)].s > blockSize) =>
            (ret.err = ErrInvalidBlockHeader /\ meta.pc = "open")

\* a pointer with the byte offset 8193 that addresses a header of the size
\* 0x7fff was refused for its offset
C14_Witness ==
    /\ ret.op = "ReadMetadata" /\ ret.at % (metadataPointerMask + 1) = blockSize + 1
    /\ PointedSize(img, ret.at) > blockSize
    /\ ret.err = ErrInvalidPointer

\* the bytes a stream asked for with pointer yields on an image that is not
\* damaged: what is left of the payload of the metablock the pointer
\* addresses, and the payloads of the metablocks after it
StreamBytes(im, pointer) ==
    LET at == pointer \div (2 ^ metadataPointerShift)
        k == CHOOSE j \in DOMAIN im.starts : im.starts[j] = at
        all == Concat([j \in k..Len(im.blocks) |-> im.payloads[j]])
    IN  Slice(all, pointer % (metadataPointerMask + 1), Len(all))

\* C19: a stream that took the metablock with its header at o and its size s
\* reads the next header at o + 2 + s, and its reads return, one after the
\* other, the payloads of the metablocks from the pointer on: a read returns
\* bytes, without error, as long as a metablock has bytes left
C19_StreamIsConcatenation ==
    (~img.damaged /\ meta.pc \in {"open", "crashed"}) =>
        /\ \A i \in 2..Len(meta.b.trail) :
               meta.b.trail[i].o
                   = meta.b.trail[i - 1].o + blockHeaderSize + meta.b.trail[i - 1].s
        /\ (ret.op = "MetadataRead" /\ meta.pointer % (metadataPointerMask + 1) <= 1) =>
               /\ ret.data = Slice(StreamBytes(img, meta.pointer), ret.at,
                                   ret.at + Len(ret.data))
               /\ (ret.L > 0 /\ ret.at < Len(StreamBytes(img, meta.pointer))) =>
                      (ret.data # <<>> /\ ret.err = ErrNone)

(***************************************************************************)
(* The superblock.                                                          *)
(***************************************************************************)
\* the block size of a header is a power of two from 2^12 to 2^20 and the
\* exponent stored next to it is its logarithm
ValidBlockSize(h) == h.log \in 12..20 /\ h.blockSize = 2 ^ h.log

ValidVersion(h) == h.major = 4 /\ h.minor = 0

HasOptionsFlag(h) == (h.flags \div 1024) % 2 = 1

\* C15: after an Open or a ReadStats that succeeded the block size is a power
\* of two from 2^12 to 2^20 and 1 << log2BlockSize is the block size; a
\* header whose block size and logarithm are not such a pair is refused with
\* the invalid block size error, a wrong magic with the invalid magic number
\* error and a version other than 4.0 with the invalid version error
C15_BlockSizeIsValid ==
    sb.op # "none" =>
        /\ sb.open => ValidBlockSize(sb.header)
        /\ sb.header.magic # magic => sb.err = ErrInvalidMagicNumber
        /\ (sb.header.magic = magic /\ ~ValidBlockSize(sb.header)) =>
               sb.err = ErrInvalidBlockSize
        /\ (sb.header.magic = magic /\ ValidBlockSize(sb.header)
                /\ ~ValidVersion(sb.header)) => sb.err = ErrInvalidVersion

\* the options the specification gives an image without an options record
SpecDefaults(c) ==
    CASE c = CompressorGZIP ->
            [kind |-> "gzip", CompressionLevel |-> 9, WindowSize |-> 15, Strategies |-> 0]
      [] c = CompressorLZO -> [kind |-> "lzo", Algorithm |-> 4, CompressionLevel |-> 8]
      [] c = CompressorXZ -> [kind |-> "xz", DictionarySize |-> 8192, Filters |-> 0]
      [] c = CompressorZSTD -> [kind |-> "zstd", CompressionLevel |-> 22]

\* C16: a header without the options flag is read without error and gives
\* the default options of its compressor: GZIP level 9 and window 15, LZO
\* algorithm 4 and level 8, XZ dictionary 8192, ZSTD level 22; an LZMA image
\* fails with the no compressor options error when the flag is set and only
\* then; a compressor id outside 1..6 fails with the invalid compressor error
C16_DefaultsWithoutOptions ==
    (sb.op # "none" /\ sb.header.magic = magic /\ ValidBlockSize(sb.header)
        /\ ValidVersion(sb.header)) =>
        /\ (~HasOptionsFlag(sb.header)
                /\ sb.header.compressor
                       \in {CompressorGZIP, CompressorLZO, CompressorXZ, CompressorZSTD}) =>
               (sb.err = ErrNone /\ sb.opts = SpecDefaults(sb.header.compressor))
        /\ sb.header.compressor = CompressorLZMA =>
               (sb.err = IF HasOptionsFlag(sb.header) THEN ErrNoCompressorOptions
                         ELSE ErrNone)
        /\ sb.header.compressor \notin 1..6 => sb.err = ErrInvalidCompressor

RECURSIVE OnesCount32(_)
OnesCount32(x) == IF x = 0 THEN 0 ELSE (x % 2) + OnesCount32(x \div 2)

\* the errors that name what an options record has outside the ranges the
\* specification states
RangeErrors(c, ler) ==
    CASE c = CompressorGZIP ->
            (IF ler.w1 \in 1..9 THEN {} ELSE {ErrInvalidCompressionLevel})
                \cup (IF ler.w2 % 65536 \in 8..15 THEN {} ELSE {ErrInvalidWindowSize})
                \cup (IF ler.w2 \div 65536 <= 31 THEN {}
                      ELSE {ErrInvalidCompressionStrategies})
      [] c = CompressorLZO ->
            (IF ler.w1 \in 0..4 THEN {} ELSE {ErrInvalidCompressionAlgorithm})
                \cup (IF ler.w2 <= 9 /\ (ler.w2 = 0 \/ ler.w1 = 4) THEN {}
                      ELSE {ErrInvalidCompressionLevel})
      [] c = CompressorXZ ->
            (IF ler.w1 >= 8192 /\ OnesCount32(ler.w1) \in {1, 2} THEN {}
             ELSE {ErrInvalidDictionarySize})
                \cup (IF ler.w2 <= 63 THEN {} ELSE {ErrInvalidFilters})
      [] c = CompressorLZ4 ->
            (IF ler.w1 = 1 THEN {} ELSE {ErrInvalidCompressorVersion})
                \cup (IF ler.w2 <= 1 THEN {} ELSE {ErrInvalidCompressorFlags})
      [] c = CompressorZSTD ->
            IF ler.w1 \in 1..22 THEN {} ELSE {ErrInvalidCompressionLevel}

\* C17: with the options flag set an options record is accepted when and only
\* when it lies in the ranges stated for its compressor, and a record that is
\* refused gets the error that names a field of it outside its range
C17_OptionRanges ==
    (sb.op # "none" /\ sb.header.magic = magic /\ ValidBlockSize(sb.header)
        /\ ValidVersion(sb.header) /\ HasOptionsFlag(sb.header)
        /\ sb.header.compressor \in {CompressorGZIP, CompressorLZO, CompressorXZ,
                                     CompressorLZ4, CompressorZSTD}) =>
        IF RangeErrors(sb.header.compressor, sb.header.ler) = {} THEN sb.err = ErrNone
        ELSE sb.err \in RangeErrors(sb.header.compressor, sb.header.ler)

(***************************************************************************)
(* Resolving a path.                                                        *)
(***************************************************************************)
\* the symlinks one resolution of the reference follows at most
RefFuel == 6

\* the entry a path names: the elements elems are walked from the directory
\* dirs ends with, dirs being the directories from the root down to it; a
\* symlink stands for its target read in the directory that holds the symlink
RECURSIVE RefWalk(_, _, _, _)
RefWalk(dirs, elems, followLast, fuel) ==
    LET here == dirs[Len(dirs)]
        fail == [ok |-> FALSE, ino |-> 0]
        named == { i \in 1..Len(Inodes[here].entries) :
                     Inodes[here].entries[i].name = elems[1] }
        child == Inodes[here].entries[CHOOSE i \in named : TRUE].ino
        target == Inodes[child].target
    IN  IF elems = <<>> THEN [ok |-> TRUE, ino |-> here]
        ELSE IF elems[1] = <<>> \/ elems[1] = Dot
        THEN RefWalk(dirs, Tail(elems), followLast, fuel)
        ELSE IF elems[1] = DotDot
        THEN RefWalk(IF Len(dirs) > 1 THEN SubSeq(dirs, 1, Len(dirs) - 1) ELSE dirs,
                     Tail(elems), followLast, fuel)
        ELSE IF ReadBits(Inodes[here].perms) = 0 \/ named = {} THEN fail
        ELSE IF Inodes[child].typ = inodeBasicSymlink /\ (Len(elems) > 1 \/ followLast)
        THEN IF fuel = 0 THEN fail
             ELSE RefWalk(IF target[1] = Slash THEN << RootInode >> ELSE dirs,
                          SplitPath(target) \o Tail(elems), followLast, fuel - 1)
        ELSE IF Len(elems) = 1 THEN [ok |-> TRUE, ino |-> child]
        ELSE IF Inodes[child].typ = inodeBasicDir
        THEN RefWalk(Append(dirs, child), Tail(elems), followLast, fuel)
        ELSE fail

RefResolve(fpath, followLast) ==
    RefWalk(<< RootInode >>, SplitPath(fpath), followLast, RefFuel)

\* C8: when the last component of a path is a symlink, LStat and Readlink
\* return that symlink, Stat and Open the entry that following it, and the
\* symlinks it leads to, ends at; the symlinks in the components before the
\* last are followed by all four
C8_LStatReturnsSymlink ==
    (res.pc = "idle" /\ res.op # "none" /\ ValidPath(res.arg)
        /\ RefResolve(res.arg, FALSE).ok
        /\ Inodes[RefResolve(res.arg, FALSE).ino].typ = inodeBasicSymlink) =>
        IF res.op \in {"LStat", "Readlink"}
        THEN /\ res.err = ErrNone
             /\ res.info.ino = RefResolve(res.arg, FALSE).ino
             /\ res.op = "Readlink" => res.target = Inodes[res.info.ino].target
        ELSE RefResolve(res.arg, TRUE).ok =>
                /\ res.err = ErrNone
                /\ res.info.ino = RefResolve(res.arg, TRUE).ino
                /\ Inodes[res.info.ino].typ # inodeBasicSymlink

\* C9: the path that following a symlink leaves names the entry that the
\* path before it named: the target resolved in the directory of the
\* symlink, and then the rest of the path
C9_RewriteKeepsTheEntry ==
    [][(res.pc = "loop" /\ res'.pc = "loop"
            /\ res'.redirectsRemaining # res.redirectsRemaining) =>
            RefResolve(res'.fullPath, res.resolveLast)
                = RefResolve(res.fullPath, res.resolveLast)]_vars

\* C13: Readlink of a path whose last entry is a symlink returns the target
\* the symlink stores, unchanged and without following it, whether the target
\* is relative, absolute, dangling or the symlink itself; Readlink of a path
\* whose last entry is not a symlink returns no target and the invalid error
C13_ReadlinkReturnsTarget ==
    (res.pc = "idle" /\ res.op = "Readlink" /\ ValidPath(res.arg)
        /\ RefResolve(res.arg, FALSE).ok) =>
        IF Inodes[RefResolve(res.arg, FALSE).ino].typ = inodeBasicSymlink
        THEN res.err = ErrNone /\ res.target = Inodes[RefResolve(res.arg, FALSE).ino].target
        ELSE res.err = ErrInvalid /\ res.target = <<>>

\* whether the pass of the loop that a resolver in the loop makes next follows
\* a symlink: by the tree, the first component of the path that remains
\* names a symlink in the directory reached, and it is not the final
\* component of a call that returns symlinks
FollowsSymlink(rs) ==
    LET slashPos == IndexByte(rs.path, Slash)
        name == IF slashPos = 0 - 1 THEN rs.path ELSE Slice(rs.path, 0, slashPos)
        rest == IF slashPos = 0 - 1 THEN <<>> ELSE Slice(rs.path, slashPos + 1, Len(rs.path))
        here == Inodes[rs.curr.ino]
    IN  /\ rs.path # <<>>
        /\ here.typ = inodeBasicDir
        /\ ReadBits(here.perms) # 0
        /\ \E i \in 1..Len(here.entries) :
               /\ here.entries[i].name = name
               /\ Inodes[here.entries[i].ino].typ = inodeBasicSymlink
        /\ rest # <<>> \/ rs.resolveLast

\* C28: a call enters the loop with 1024 redirects; each pass of the loop
\* takes one redirect away when it follows a symlink and leaves the counter
\* alone otherwise, a symlink that is the final component of LStat or Readlink
\* included; the pass that takes the counter to zero returns the invalid
\* error and every other pass that follows a symlink goes on, so a call in
\* the loop always has a redirect left and follows at most 1023 symlinks
C28_RedirectBudget ==
    [][ /\ (res.pc = "idle" /\ res'.pc = "loop") =>
               res'.redirectsRemaining = maximumRedirects
        /\ res.pc = "loop" =>
               /\ res.redirectsRemaining \in 1..maximumRedirects
               /\ res'.redirectsRemaining
                      = res.redirectsRemaining - (IF FollowsSymlink(res) THEN 1 ELSE 0)
               /\ (FollowsSymlink(res) /\ res.redirectsRemaining = 1) =>
                      res'.pc = "idle" /\ res'.err = ErrInvalid
               /\ (FollowsSymlink(res) /\ res.redirectsRemaining > 1) =>
                      res'.pc = "loop"
               /\ (res'.pc = "idle" /\ res'.redirectsRemaining > 0) =>
                      ~FollowsSymlink(res)
               /\ (res'.pc = "idle" /\ res'.err = ErrNone /\ ~res.resolveLast
                      /\ Inodes[res'.info.ino].typ = inodeBasicSymlink) =>
                      res'.redirectsRemaining = res.redirectsRemaining
      ]_vars

\* a call on a symlink that points to itself has followed it 1023 times
C28_Witness ==
    /\ res.pc = "loop" /\ res.op = "Open" /\ res.arg = Str("loop")
    /\ res.redirectsRemaining = 1

\* C10: a call that resolves a path returns, and it returns the invalid
\* error when it has used up its redirects
C10_ResolveTerminates ==
    /\ (res.pc = "loop") ~> (res.pc = "idle")
    /\ [](res.pc = "idle" /\ res.op # "none" /\ res.redirectsRemaining = 0
            /\ ValidPath(res.arg) => res.err = ErrInvalid)

\* a call on a symlink that points to itself returned the invalid error with
\* no redirect left
C10_Witness ==
    /\ res.pc = "idle" /\ res.op = "Stat" /\ res.arg = Str("loop")
    /\ res.redirectsRemaining = 0 /\ res.err = ErrInvalid
====
